---- MODULE Spec2Model ----
\* Trace ingestion, caching and read path of the backend:
\*   utils/cache.rs            LogCache (memory-bounded LRU) and MemorySize
\*   handlers/ingest/*.rs      ingest_payload and the transactional writer
\*   handlers/logs.rs          fetch_log_response, get_log, visibility handlers
\*   utils/state.rs            AppState (cache handle, broadcast sender)
EXTENDS Integers, Sequences, FiniteSets, TLC

\* The field names of the records of this module, in the one order in which
\* every record below lists its fields.
FieldOrder ==
    [access_counter |-> 0, access_order |-> 0, action_id |-> 0, action_order |-> 0,
     action_type |-> 0, actions |-> 0, active_mod |-> 0, active_mod_name |-> 0,
     allowed_api_key |-> 0, alone |-> 0, backtrack_steps |-> 0, batch_size |-> 0,
     body |-> 0, caller |-> 0, collection_id |-> 0, completed_at |-> 0, created_at |-> 0,
     created_ts |-> 0, current_bytes |-> 0, data |-> 0, db |-> 0, deleted |-> 0,
     details |-> 0, discussion_count |-> 0, discussions |-> 0, entries |-> 0,
     entry_count |-> 0, event |-> 0, event_id |-> 0, event_ids |-> 0,
     event_sequence_order |-> 0, event_type |-> 0, events |-> 0, evicted |-> 0,
     exception_occurred |-> 0, expires_at |-> 0, failed |-> 0, favorited_by |-> 0,
     fetched |-> 0, final_text |-> 0, final_token_ids |-> 0, final_tokens |-> 0,
     finished_ts |-> 0, forced |-> 0, freed |-> 0, hit |-> 0, hits |-> 0, id |-> 0,
     index |-> 0, is_admin |-> 0, is_public |-> 0, key |-> 0, kind |-> 0, len |-> 0,
     log_level |-> 0, log_message |-> 0, max_bytes |-> 0, max_steps |-> 0,
     max_tokens |-> 0, missed |-> 0, misses |-> 0, mod_call_id |-> 0, mod_call_ids |-> 0,
     mod_call_sequence |-> 0, mod_calls |-> 0, mod_id |-> 0, mod_logs |-> 0,
     mod_name |-> 0, model |-> 0, model_id |-> 0, name |-> 0, next |-> 0, now |-> 0,
     op |-> 0, open |-> 0, params |-> 0, payload |-> 0, pc |-> 0, prompt_length |-> 0,
     public_token |-> 0, queries |-> 0, readers |-> 0, removed |-> 0, request |-> 0,
     request_id |-> 0, request_ids |-> 0, requests |-> 0, responses |-> 0,
     rolled_back |-> 0, row |-> 0, row_params |-> 0, rows |-> 0, sampled_token |-> 0,
     seqs |-> 0, sequence_order |-> 0, size_bytes |-> 0, status |-> 0, step |-> 0,
     step_index |-> 0, steps |-> 0, table |-> 0, tags |-> 0, temperature |-> 0, to |-> 0,
     token |-> 0, token_count |-> 0, token_text |-> 0, total_steps |-> 0, ttl |-> 0,
     tx |-> 0, type |-> 0, user_api_key |-> 0, user_prompt |-> 0, value |-> 0,
     worker |-> 0, writer |-> 0]
VARIABLES
    log_cache,   \* AppState.log_cache: the LogCache fields
    last,        \* observation of the last completed LogCache call (call, arguments, outcome)
    threads,     \* per thread: the LogCache call it is in, its position and its locals
    lock,        \* the RwLock of LogCache.entries: the writer and the readers holding it
    db,          \* the committed rows of the store's tables
    seqs,        \* next value of the id sequence of each child table
    tasks,       \* per task: the handler it runs, its position and its locals
    log_events,  \* the NewLogEvents sent on AppState.log_events_tx, in send order
    commits,     \* what each committed ingest transaction wrote
    started,     \* number of requests that have arrived
    reply,       \* observation of the last reply a handler sent
    subs,        \* per live-update connection: the subscriber's scope and its cursor
    sent,        \* observation of the last step of a connection's send loop
    stmt,        \* observation of the last bulk INSERT statement a writer built
    ttl_cache,   \* a TtlCache: its entries, ttl and counters
    clock,       \* Instant::now()
    ttl_last,    \* observation of the last completed TtlCache call
    warm         \* warm_cache of the server's start: its position and its locals

cacheVars == <<log_cache, last>>
sysVars == <<db, seqs, tasks, log_events, commits, started, reply, subs, sent>>
auxVars == <<stmt, ttl_cache, clock, ttl_last, warm>>
vars == <<log_cache, last, threads, lock, db, seqs, tasks, log_events, commits, started,
          reply, subs, sent, stmt, ttl_cache, clock, ttl_last, warm>>

\* ------------------------------------------------------------------ bounds
\* Cap on the values handed out by LogCache.access_counter.
MaxAccess == 5
\* Cap on LogCache.misses.
MaxMisses == 1
\* Cap on the number of requests that arrive at the handlers.
MaxRequests == 3

\* ------------------------------------------------------------------ Option<T>
\* Option<T> as a sequence of length 0 or 1.
None == <<>>
Some(v) == <<v>>
IsSome(o) == o # <<>>
Unwrap(o) == o[1]

\* Sum of the elements of a sequence of numbers.
RECURSIVE SumSeq(_)
SumSeq(s) ==
    IF s = <<>> THEN 0
    ELSE IF Len(s) = 1 THEN s[1]
    ELSE LET half == Len(s) \div 2
         IN SumSeq(SubSeq(s, 1, half)) + SumSeq(SubSeq(s, half + 1, Len(s)))

\* ------------------------------------------------------------------ MemorySize
\* std::mem::size_of of the types the estimator names (x86_64 layout).
SizeOfLogResponse == 928
SizeOfString == 24
SizeOfOptionString == 24
SizeOfVecString == 24
SizeOfJsonValue == 32
SizeOfI32 == 4

\* impl MemorySize for String: size_of::<String>() + capacity (capacity = length).
String_memory_size(s) == SizeOfString + Len(s)

\* impl MemorySize for Option<String>.
OptionString_memory_size(o) ==
    SizeOfOptionString + (IF IsSome(o) THEN String_memory_size(Unwrap(o)) ELSE 0)

\* impl MemorySize for Vec<String> (capacity = length).
VecString_memory_size(v) ==
    SizeOfVecString + Len(v) * SizeOfString
        + SumSeq([i \in 1..Len(v) |-> String_memory_size(v[i])])

\* impl MemorySize for LogResponse. The fields that are None / empty in every
\* LogResponse the program builds (system_prompt, formatted_prompt, model_version,
\* tokenizer_version, vocab_hash, sampler_preset, sampler_algo, eos_reason,
\* step_logit_summaries, inference_stats, request_tags = {}) enter with their
\* fixed size only.
LogResponse_memory_size(v) ==
    SizeOfLogResponse
    + String_memory_size(v.request_id)
    + SizeOfOptionString                       \* system_prompt
    + OptionString_memory_size(v.user_prompt)
    + SizeOfOptionString                       \* formatted_prompt
    + OptionString_memory_size(v.model_id)
    + 5 * SizeOfOptionString                   \* model_version .. sampler_algo
    + OptionString_memory_size(v.final_text)
    + SizeOfOptionString                       \* eos_reason
    + SizeOfJsonValue                          \* request_tags
    + VecString_memory_size(v.favorited_by)
    + VecString_memory_size(v.tags)
    + (IF IsSome(v.final_tokens) THEN Len(Unwrap(v.final_tokens)) * SizeOfI32 ELSE 0)
    + (IF IsSome(v.active_mod) THEN 64 ELSE 0)
    + Len(v.events) * 200
    + Len(v.mod_calls) * 150
    + Len(v.mod_logs) * 100
    + Len(v.actions) * 300
    + Len(v.steps) * 200

\* ------------------------------------------------------------------ LogCache
\* LogCache::with_max_bytes.
LogCache_with_max_bytes(max_bytes) ==
    [access_counter |-> 0, current_bytes |-> 0, entries |-> <<>>, hits |-> 0,
     max_bytes |-> max_bytes, misses |-> 0]

\* HashMap::remove on the entries map.
MapRemove(entries, key) == [k \in DOMAIN entries \ {key} |-> entries[k]]

\* HashMap::insert on the entries map.
MapInsert(entries, key, e) ==
    [k \in DOMAIN entries \cup {key} |-> IF k = key THEN e ELSE entries[k]]

\* The size test of insert: entries larger than half the budget are not cached.
TooLargeNoHalving(size_bytes, max_bytes) == size_bytes > max_bytes
TooLarge(size_bytes, max_bytes) == size_bytes > max_bytes \div 2

\* entries.iter().min_by_key(|(_, e)| e.access_order): access orders are handed
\* out under the write lock, one per call, so the minimum is unique.
MruKey(entries) ==
    CHOOSE k \in DOMAIN entries :
        \A j \in DOMAIN entries : entries[k].access_order >= entries[j].access_order
LruKey(entries) ==
    CHOOSE k \in DOMAIN entries :
        \A j \in DOMAIN entries : entries[k].access_order <= entries[j].access_order

\* The eviction loop of insert: while current_bytes + size_bytes > max_bytes and
\* the map is not empty, remove the least recently used entry and refund it.
\* Yields the map, the byte count and the keys evicted, in eviction order.
EvictLoopOnce(entries, current_bytes, size_bytes, max_bytes, evicted) ==
    IF current_bytes + size_bytes > max_bytes /\ DOMAIN entries # {}
    THEN LET key == CHOOSE k \in DOMAIN entries :
                        \A j \in DOMAIN entries :
                            entries[k].access_order <= entries[j].access_order
         IN [current_bytes |-> current_bytes - entries[key].size_bytes,
             entries |-> [k \in DOMAIN entries \ {key} |-> entries[k]],
             evicted |-> Append(evicted, key)]
    ELSE [current_bytes |-> current_bytes, entries |-> entries, evicted |-> evicted]
RECURSIVE EvictLoop(_, _, _, _, _)
EvictLoop(entries, current_bytes, size_bytes, max_bytes, evicted) ==
    IF current_bytes + size_bytes > max_bytes /\ DOMAIN entries # {}
    THEN LET key == LruKey(entries) IN
         EvictLoop(MapRemove(entries, key),
                   current_bytes - entries[key].size_bytes,
                   size_bytes, max_bytes, Append(evicted, key))
    ELSE [current_bytes |-> current_bytes, entries |-> entries, evicted |-> evicted]

\* Bytes refunded by removing any existing entry of the key (insert, first step).
RefundNothing(c, request_id) == 0
RefundExisting(c, request_id) ==
    IF request_id \in DOMAIN c.entries THEN c.entries[request_id].size_bytes ELSE 0

\* LogCache::insert: the cache after the call.
LogCache_insert(c, request_id, value) ==
    LET size_bytes == LogResponse_memory_size(value) IN
    IF TooLarge(size_bytes, c.max_bytes) THEN c
    ELSE LET removed == MapRemove(c.entries, request_id)
             refunded == c.current_bytes - RefundExisting(c, request_id)
             ev == EvictLoop(removed, refunded, size_bytes, c.max_bytes, <<>>)
             entry == [access_order |-> c.access_counter, size_bytes |-> size_bytes,
                       value |-> value]
         IN [c EXCEPT !.entries = MapInsert(ev.entries, request_id, entry),
                      !.current_bytes = ev.current_bytes + size_bytes,
                      !.access_counter = c.access_counter + 1]

\* The keys insert evicts, in eviction order (empty for a rejected insert).
LogCache_insert_evicted(c, request_id, value) ==
    LET size_bytes == LogResponse_memory_size(value) IN
    IF TooLarge(size_bytes, c.max_bytes) THEN <<>>
    ELSE EvictLoop(MapRemove(c.entries, request_id),
                   c.current_bytes - RefundExisting(c, request_id),
                   size_bytes, c.max_bytes, <<>>).evicted

\* LogCache::get with no concurrent call between its two lock scopes: the value
\* returned (None on a miss).
LogCache_get_value(c, request_id) ==
    IF request_id \in DOMAIN c.entries THEN Some(c.entries[request_id].value) ELSE None

\* Counter updates of get.
CountMissAsHit(c, present) == [c EXCEPT !.hits = c.hits + 1]
CountGet(c, present) ==
    IF present THEN [c EXCEPT !.hits = c.hits + 1]
    ELSE [c EXCEPT !.misses = c.misses + 1]

\* A recency update that reads the counter without advancing it.
TouchKeepsCounter(c, request_id) ==
    [c EXCEPT !.entries[request_id].access_order = c.access_counter]

\* Recency update of get on a hit: a fresh access_order for the entry.
Touch(c, request_id) ==
    [c EXCEPT !.entries[request_id].access_order = c.access_counter,
              !.access_counter = c.access_counter + 1]

\* LogCache::get with no concurrent call between its two lock scopes: the cache
\* after the call.
\* A get that trusts its first check: under the write lock it counts a hit
\* whether or not the key is still there.
GetTrustsFirstCheck(c, request_id) ==
    IF request_id \in DOMAIN c.entries
    THEN CountGet(Touch(c, request_id), TRUE)
    ELSE CountGet(c, TRUE)
LogCache_get(c, request_id) ==
    IF request_id \in DOMAIN c.entries
    THEN CountGet(Touch(c, request_id), TRUE)
    ELSE CountGet(c, FALSE)

\* LogCache::invalidate: the cache after the call.
InvalidateNoRefund(c, request_id) ==
    IF request_id \in DOMAIN c.entries
    THEN [c EXCEPT !.entries = MapRemove(c.entries, request_id)]
    ELSE c
LogCache_invalidate(c, request_id) ==
    IF request_id \in DOMAIN c.entries
    THEN [c EXCEPT !.entries = MapRemove(c.entries, request_id),
                   !.current_bytes = c.current_bytes - c.entries[request_id].size_bytes]
    ELSE c

\* LogCache::clear.
LogCache_clear(c) == [c EXCEPT !.entries = <<>>, !.current_bytes = 0]

\* LogCache::stats (entry_count, current_bytes, max_bytes, hits, misses).
LogCache_stats(c) ==
    [current_bytes |-> c.current_bytes, entry_count |-> Cardinality(DOMAIN c.entries),
     hits |-> c.hits, max_bytes |-> c.max_bytes, misses |-> c.misses]

\* ------------------------------------------------------------------ bulk INSERT statements
\* Rows per bulk INSERT statement of the four writers.
EVENTS_BATCH_SIZE == 4000
MOD_CALLS_BATCH_SIZE == 6000
MOD_LOGS_BATCH_SIZE == 10000
ACTIONS_BATCH_SIZE == 3500

\* Parameters each writer binds per row (its .bind calls inside the row loop).
EventParams == 16
ModCallParams == 10
ModLogParams == 6
ActionParams == 18

\* The most parameters one statement may carry (u16::MAX).
MaxStatementParams == 65535

\* The four bulk writers: rows per statement and parameters per row.
BulkWriters ==
    [actions |-> [batch_size |-> ACTIONS_BATCH_SIZE, row_params |-> ActionParams],
     events |-> [batch_size |-> EVENTS_BATCH_SIZE, row_params |-> EventParams],
     mod_calls |-> [batch_size |-> MOD_CALLS_BATCH_SIZE, row_params |-> ModCallParams],
     mod_logs |-> [batch_size |-> MOD_LOGS_BATCH_SIZE, row_params |-> ModLogParams]]

\* slice.chunks without the split: the whole list as one chunk.
Unchunked(len, size) == [i \in 1..(IF len = 0 THEN 0 ELSE 1) |-> len]

\* slice.chunks(size) of a slice of len elements: the lengths of the chunks, all
\* of them size long but the last, which holds what is left.
chunks(len, size) ==
    [i \in 1..((len + size - 1) \div size) |->
        IF i * size <= len THEN size ELSE len - (i - 1) * size]

\* No bulk statement has been built.
NoStatement == [index |-> 0, len |-> 0, params |-> 0, rows |-> 0, table |-> "events"]

\* ------------------------------------------------------------------ ingest payloads
\* Option::unwrap_or / unwrap_or_else.
UnwrapOr(o, d) == IF IsSome(o) THEN Unwrap(o) ELSE d

\* `x as usize` of an i32 on a 64-bit target: a negative x wraps to 2^64 + x.
\* UsizeSpan stands for 2^64; every Vec of the model is far shorter than either.
UsizeSpan == 1073741824
AsUsize(x) == IF x < 0 THEN UsizeSpan + x ELSE x

\* slice::get(i) with a 0-based usize index.
VecGet(v, i) == IF i < Len(v) THEN Some(v[i + 1]) ELSE None

\* The ids the model ingests and reads.
RequestIds == {"t1"}

\* EventRecord (payload.rs). Of the columns that are copied verbatim from the
\* payload to the row and from the row to the response, the model carries
\* prompt_length, sampled_token, token_text and forced; details,
\* tokens_so_far_len, max_steps, input_text, top_tokens, added_tokens and
\* added_token_count travel the same way and are left out.
PrefilledEvent(sequence_order, created_at) ==
    [created_at |-> Some(created_at), event_type |-> "Prefilled", forced |-> None,
     prompt_length |-> Some(10), sampled_token |-> None,
     sequence_order |-> sequence_order, step |-> 0, token_text |-> None]
SampledEvent(step, sequence_order, created_at) ==
    [created_at |-> Some(created_at), event_type |-> "Sampled", forced |-> Some(FALSE),
     prompt_length |-> None, sampled_token |-> Some(42),
     sequence_order |-> sequence_order, step |-> step, token_text |-> Some("token")]

\* An EventRecord of any EventType, its forced flag given or absent.
EventRecord(event_type, step, sequence_order, sampled_token, forced, created_at) ==
    [created_at |-> Some(created_at), event_type |-> event_type, forced |-> forced,
     prompt_length |-> None, sampled_token |-> sampled_token,
     sequence_order |-> sequence_order, step |-> step, token_text |-> None]

\* ModCallRecord (execution_time_ms, exception_message, exception_traceback left out).
ModCall(event_sequence_order, created_at) ==
    [created_at |-> Some(created_at), event_sequence_order |-> event_sequence_order,
     event_type |-> "Sampled", exception_occurred |-> FALSE, mod_name |-> "test-mod",
     step |-> 1]

\* ModLogRecord.
ModLog(mod_call_sequence, created_at) ==
    [created_at |-> Some(created_at), log_level |-> "INFO",
     log_message |-> "Test log message", mod_call_sequence |-> mod_call_sequence,
     mod_name |-> "test-mod"]

\* ActionRecord: of the explicit fields the model carries token_count and
\* backtrack_steps; details is an optional JSON object, a set of <<key, number>>.
Action(mod_call_sequence, action_type, created_at, details, token_count) ==
    [action_order |-> 0, action_type |-> action_type, backtrack_steps |-> None,
     created_at |-> Some(created_at), details |-> details,
     mod_call_sequence |-> mod_call_sequence, token_count |-> token_count]

\* RequestRecord (mod_text, user_prompt_token_ids and inference_stats are stored
\* like temperature and, like it, never read back; they are left out).
FirstRequest(request_id) ==
    [active_mod_name |-> Some("test-mod"), completed_at |-> None, created_at |-> Some(9),
     final_text |-> Some("Response text"), final_token_ids |-> Some(<<1, 2, 3>>),
     max_tokens |-> Some(100), model |-> Some("test-model"), request_id |-> request_id,
     temperature |-> Some(7), user_api_key |-> Some("K1"),
     user_prompt |-> Some("Hello, world!")]
SecondRequest(request_id) ==
    [active_mod_name |-> None, completed_at |-> Some(21), created_at |-> Some(20),
     final_text |-> Some("Other text"), final_token_ids |-> Some(<<4>>),
     max_tokens |-> Some(50), model |-> Some("other-model"), request_id |-> request_id,
     temperature |-> Some(9), user_api_key |-> Some("K1"),
     user_prompt |-> Some("Bye")]

\* FullIngestPayload values. "first" is make_test_payload of to_response.rs with
\* an owning key and the children's timestamps supplied; "second" differs from it
\* in every request attribute and in every array; "big" has enough events to be
\* estimated above half the cache budget; "bad_high" and "bad_neg" carry a mod
\* call whose event_sequence_order is events.len() resp. negative. Further
\* payloads: "unowned" has no owning key; "empty" has no children; "big_empty"
\* has no children and a prompt that puts its estimate above half the budget;
\* "bad_log_*" and "bad_action_*" are "first" with a mod log resp. an action
\* whose mod_call_sequence is mod_calls.len() resp. negative; "tied" has two
\* children of each kind with equal sort keys, and an action whose explicit
\* token_count differs from the "token_count" of its details; "overridden" is
\* "second" with an action whose explicit token_count differs from its details
\* and an action that has backtrack_steps in its details only; "swapped" has
\* events of the four types, numbered 0 to 4 by sequence_order in another
\* order than they are submitted in, one Sampled event without a forced flag.
PayloadKinds == {"first", "second", "big", "bad_high", "bad_neg"}
SecondWithModCall(request_id, event_sequence_order) ==
    [actions |-> <<>>, events |-> <<SampledEvent(0, 0, 22)>>,
     mod_calls |-> <<ModCall(event_sequence_order, 23)>>, mod_logs |-> <<>>,
     request |-> [SecondRequest(request_id) EXCEPT !.created_at = None]]
\* "first" with the mod_call_sequence of its mod log and of its action set: the
\* payload has one mod call, so 0 is the only valid reference.
FirstWithReferences(request_id, log_reference, action_reference) ==
    [actions |-> <<Action(action_reference, "Noop", 14, None, None)>>,
     events |-> <<PrefilledEvent(0, 10), SampledEvent(1, 1, 11)>>,
     mod_calls |-> <<ModCall(1, 12)>>, mod_logs |-> <<ModLog(log_reference, 13)>>,
     request |-> FirstRequest(request_id)]

\* A prompt of 2000 characters.
LongPrompt ==
    LET hundred ==
            "0123456789012345678901234567890123456789012345678901234567890123456789012345678901234567890123456789"
        thousand == hundred \o hundred \o hundred \o hundred \o hundred \o hundred
                        \o hundred \o hundred \o hundred \o hundred
    IN thousand \o thousand

\* "long": one event more than a chunk of replace_events, the sequence_order of
\* the events running against their positions, and two mod calls that refer to
\* the last and to the first position.
LongPayload(request_id) ==
    [actions |-> <<Action(1, "Noop", 64, None, None)>>,
     events |-> [i \in 1..(EVENTS_BATCH_SIZE + 1) |->
                    SampledEvent(1, EVENTS_BATCH_SIZE + 1 - i, 60)],
     mod_calls |-> <<ModCall(EVENTS_BATCH_SIZE, 61), ModCall(0, 62)>>,
     mod_logs |-> <<ModLog(0, 63)>>,
     request |-> [FirstRequest(request_id) EXCEPT
                     !.created_at = Some(60), !.model = Some("long-model")]]

Payload(request_id, kind) ==
    CASE kind = "long" -> LongPayload(request_id)
      [] kind = "first" ->
            [actions |-> <<Action(0, "Noop", 14, None, None)>>,
             events |-> <<PrefilledEvent(0, 10), SampledEvent(1, 1, 11)>>,
             mod_calls |-> <<ModCall(1, 12)>>, mod_logs |-> <<ModLog(0, 13)>>,
             request |-> FirstRequest(request_id)]
      [] kind = "second" ->
            [actions |-> <<Action(0, "ForceTokens", 24, Some({<<"note", 1>>}), Some(2))>>,
             events |-> <<SampledEvent(0, 0, 22)>>,
             mod_calls |-> <<ModCall(0, 23)>>, mod_logs |-> <<>>,
             request |-> SecondRequest(request_id)]
      [] kind = "big" ->
            [actions |-> <<>>,
             events |-> [i \in 1..5 |-> SampledEvent(i - 1, i - 1, 30 + i)],
             mod_calls |-> <<>>, mod_logs |-> <<>>,
             request |-> [FirstRequest(request_id) EXCEPT
                             !.created_at = Some(30), !.model = Some("big-model"),
                             !.user_prompt = Some("Long prompt")]]
      [] kind = "tied" ->
            [actions |-> <<Action(0, "Noop", 73, None, None),
                           Action(1, "ForceTokens", 73, Some({<<"token_count", 5>>}), Some(2))>>,
             events |-> <<SampledEvent(0, 0, 70), PrefilledEvent(0, 70)>>,
             mod_calls |-> <<ModCall(0, 71), ModCall(1, 71)>>,
             mod_logs |-> <<ModLog(0, 72), ModLog(1, 72)>>,
             request |-> [SecondRequest(request_id) EXCEPT !.created_at = Some(20)]]
      [] kind = "overridden" ->
            [actions |-> <<Action(0, "ForceTokens", 24, Some({<<"token_count", 5>>}), Some(2)),
                           Action(0, "Backtrack", 25, Some({<<"backtrack_steps", 3>>}), None)>>,
             events |-> <<SampledEvent(0, 0, 22)>>,
             mod_calls |-> <<ModCall(0, 23)>>, mod_logs |-> <<>>,
             request |-> SecondRequest(request_id)]
      [] kind = "swapped" ->
            [actions |-> <<>>,
             events |-> <<EventRecord("Sampled", 1, 3, Some(8), None, 83),
                          EventRecord("ForwardPass", 0, 1, None, None, 81),
                          EventRecord("Added", 0, 2, None, None, 82),
                          EventRecord("Sampled", 0, 0, Some(7), Some(TRUE), 80),
                          EventRecord("Prefilled", 1, 4, None, None, 84)>>,
             mod_calls |-> <<>>, mod_logs |-> <<>>,
             request |-> [SecondRequest(request_id) EXCEPT !.created_at = Some(80)]]
      [] kind = "bad_high" -> SecondWithModCall(request_id, 1)
      [] kind = "bad_neg" -> SecondWithModCall(request_id, -1)
      [] kind = "unowned" ->
            [actions |-> <<>>, events |-> <<SampledEvent(0, 0, 41)>>,
             mod_calls |-> <<>>, mod_logs |-> <<>>,
             request |-> [SecondRequest(request_id) EXCEPT
                             !.created_at = Some(40), !.user_api_key = None]]
      [] kind = "empty" ->
            [actions |-> <<>>, events |-> <<>>, mod_calls |-> <<>>, mod_logs |-> <<>>,
             request |-> SecondRequest(request_id)]
      [] kind = "big_empty" ->
            [actions |-> <<>>, events |-> <<>>, mod_calls |-> <<>>, mod_logs |-> <<>>,
             request |-> [SecondRequest(request_id) EXCEPT
                             !.user_prompt = Some(LongPrompt)]]
      [] kind = "bad_log_high" -> FirstWithReferences(request_id, 1, 0)
      [] kind = "bad_log_neg" -> FirstWithReferences(request_id, -1, 0)
      [] kind = "bad_action_high" -> FirstWithReferences(request_id, 0, 1)
      [] kind = "bad_action_neg" -> FirstWithReferences(request_id, 0, -1)

\* The instants Utc::now() may return to a handler.
NowChoices == {50, 51}

\* Option<AuthenticatedKey> of a caller (id and name left out): the administrator,
\* a user scoped to K1, a user scoped to K2, and no / an invalid key.
Admin == Some([allowed_api_key |-> None, is_admin |-> TRUE])
UserOf(key) == Some([allowed_api_key |-> Some(key), is_admin |-> FALSE])
Callers == {Admin, UserOf("K1"), UserOf("K2"), None}

\* ------------------------------------------------------------------ the store
\* The tables, each a set of rows. requests is keyed by request_id; the ids of
\* the other tables come from their sequences.
EmptyDb ==
    [actions |-> {}, discussions |-> {}, events |-> {}, mod_calls |-> {},
     mod_logs |-> {}, requests |-> {}]

\* Next value of each id sequence (bigserial, first value 1).
FirstId == 1
InitSeqs == [actions |-> FirstId, events |-> FirstId, mod_calls |-> FirstId,
             mod_logs |-> FirstId]

\* A WHERE clause that leaves out the request_id.
RowsOfEveryRequest(table, request_id) == table

\* The rows of a table that belong to one request.
RowsOf(table, request_id) == {r \in table : r.request_id = request_id}

\* Columns of requests that the INSERT of persist_request does not name and
\* that a new row therefore gets from the table's defaults.
RequestsDefaults ==
    [favorited_by |-> <<>>, is_public |-> FALSE, public_token |-> None, tags |-> <<>>]

\* persist_request: the requests row after INSERT ... ON CONFLICT (request_id)
\* DO UPDATE. A new row takes every bound column; an existing row takes the
\* columns of the SET list and keeps created_at and the columns not named.
\* The mutant also overwrites created_at.
UpsertAlsoCreatedAt(requests, request, now) ==
    LET existing == RowsOf(requests, request.request_id)
        old == CHOOSE r \in existing : TRUE
        d == IF existing = {} THEN RequestsDefaults
             ELSE [favorited_by |-> old.favorited_by, is_public |-> old.is_public,
                   public_token |-> old.public_token, tags |-> old.tags]
    IN [active_mod_name |-> request.active_mod_name,
        completed_at |-> request.completed_at,
        created_at |-> UnwrapOr(request.created_at, now),
        favorited_by |-> d.favorited_by, final_text |-> request.final_text,
        final_token_ids |-> request.final_token_ids, is_public |-> d.is_public,
        max_tokens |-> request.max_tokens, model |-> request.model,
        public_token |-> d.public_token, request_id |-> request.request_id,
        tags |-> d.tags, temperature |-> request.temperature,
        user_api_key |-> request.user_api_key, user_prompt |-> request.user_prompt]
persist_request(requests, request, now) ==
    LET created_at == UnwrapOr(request.created_at, now)
        existing == RowsOf(requests, request.request_id)
    IN IF existing = {}
       THEN [active_mod_name |-> request.active_mod_name,
             completed_at |-> request.completed_at, created_at |-> created_at,
             favorited_by |-> RequestsDefaults.favorited_by,
             final_text |-> request.final_text,
             final_token_ids |-> request.final_token_ids,
             is_public |-> RequestsDefaults.is_public,
             max_tokens |-> request.max_tokens, model |-> request.model,
             public_token |-> RequestsDefaults.public_token,
             request_id |-> request.request_id, tags |-> RequestsDefaults.tags,
             temperature |-> request.temperature,
             user_api_key |-> request.user_api_key,
             user_prompt |-> request.user_prompt]
       ELSE [(CHOOSE r \in existing : TRUE) EXCEPT
                !.completed_at = request.completed_at,
                !.model = request.model,
                !.user_api_key = request.user_api_key,
                !.max_tokens = request.max_tokens,
                !.temperature = request.temperature,
                !.user_prompt = request.user_prompt,
                !.active_mod_name = request.active_mod_name,
                !.final_token_ids = request.final_token_ids,
                !.final_text = request.final_text]

\* The ids RETURNING id hands back for n rows inserted by one statement, in
\* the order of the VALUES list.
ReturnedIds(next, n) == [i \in 1..n |-> next + i - 1]

\* replace_events, the INSERT: the rows bound for the events, in submission order.
EventRows(request_id, events, ids, now) ==
    {[created_at |-> UnwrapOr(events[i].created_at, now),
      event_type |-> events[i].event_type, forced |-> events[i].forced,
      id |-> ids[i], prompt_length |-> events[i].prompt_length,
      request_id |-> request_id, sampled_token |-> events[i].sampled_token,
      sequence_order |-> events[i].sequence_order, step |-> events[i].step,
      token_text |-> events[i].token_text] : i \in 1..Len(events)}

\* replace_mod_calls: event_ids.get(event_sequence_order as usize) of each mod
\* call; one None makes the call fail with BadRequest before the INSERT is sent.
\* The mutant looks the position up without the bounds check of slice::get and
\* falls back to the raw number.
ResolveUnchecked(ids, sequences) ==
    [i \in 1..Len(sequences) |->
        IF sequences[i] >= 0 /\ sequences[i] < Len(ids)
        THEN Some(ids[sequences[i] + 1]) ELSE Some(sequences[i])]
Resolve(ids, sequences) ==
    [i \in 1..Len(sequences) |-> VecGet(ids, AsUsize(sequences[i]))]
AllResolved(resolved) == \A i \in 1..Len(resolved) : IsSome(resolved[i])

\* The event_sequence_order resp. mod_call_sequence columns of a payload array.
EventSequences(mod_calls) == [i \in 1..Len(mod_calls) |-> mod_calls[i].event_sequence_order]
ModCallSequences(records) == [i \in 1..Len(records) |-> records[i].mod_call_sequence]

\* replace_mod_calls, the INSERT: the rows bound for the mod calls.
ModCallRows(request_id, mod_calls, event_ids, ids, now) ==
    LET resolved == Resolve(event_ids, EventSequences(mod_calls)) IN
    {[created_at |-> UnwrapOr(mod_calls[i].created_at, now),
      event_id |-> Unwrap(resolved[i]), event_type |-> mod_calls[i].event_type,
      exception_occurred |-> mod_calls[i].exception_occurred, id |-> ids[i],
      mod_name |-> mod_calls[i].mod_name, request_id |-> request_id,
      step |-> mod_calls[i].step] : i \in 1..Len(mod_calls)}

\* replace_mod_logs, the INSERT: the rows bound for the mod logs.
ModLogRows(request_id, mod_logs, mod_call_ids, ids, now) ==
    LET resolved == Resolve(mod_call_ids, ModCallSequences(mod_logs)) IN
    {[created_at |-> UnwrapOr(mod_logs[i].created_at, now), id |-> ids[i],
      log_level |-> mod_logs[i].log_level, log_message |-> mod_logs[i].log_message,
      mod_call_id |-> Unwrap(resolved[i]), mod_name |-> mod_logs[i].mod_name,
      request_id |-> request_id] : i \in 1..Len(mod_logs)}

\* serde_json::Value::get(key) on an optional JSON object of numbers.
DetailsGet(details, key) ==
    IF IsSome(details) /\ \E kv \in Unwrap(details) : kv[1] = key
    THEN Some((CHOOSE kv \in Unwrap(details) : kv[1] = key)[2])
    ELSE None

\* extract_i32_from_details: the explicit field when present, else the detail key.
extract_i32_from_details(details, key, top_level) ==
    IF IsSome(top_level) THEN top_level ELSE DetailsGet(details, key)

\* replace_actions, the INSERT: the rows bound for the actions.
ActionRows(request_id, actions, mod_call_ids, ids, now) ==
    LET resolved == Resolve(mod_call_ids, ModCallSequences(actions)) IN
    {[action_order |-> actions[i].action_order, action_type |-> actions[i].action_type,
      backtrack_steps |-> extract_i32_from_details(actions[i].details, "backtrack_steps",
                                                   actions[i].backtrack_steps),
      created_at |-> UnwrapOr(actions[i].created_at, now),
      details |-> actions[i].details, id |-> ids[i],
      mod_call_id |-> Unwrap(resolved[i]), request_id |-> request_id,
      token_count |-> extract_i32_from_details(actions[i].details, "token_count",
                                               actions[i].token_count)]
        : i \in 1..Len(actions)}

\* The ids of a set of rows.
IdsOf(rows) == {r.id : r \in rows}

\* What a transaction has done so far and is not yet committed: the upserted
\* requests row, the tables it deleted this request's rows from, the rows it
\* inserted.
NoTx ==
    [actions |-> {}, deleted |-> {}, events |-> {}, mod_calls |-> {},
     mod_logs |-> {}, row |-> None]

\* COMMIT: the tables with the transaction's statements applied. DELETE FROM
\* mod_calls cascades to the mod_logs and actions rows that reference the
\* deleted mod calls.
Commit(d, request_id, tx) ==
    LET gone == IF "mod_calls" \in tx.deleted
                THEN IdsOf(RowsOf(d.mod_calls, request_id)) ELSE {}
    IN [actions |-> {r \in d.actions : r.mod_call_id \notin gone} \cup tx.actions,
        discussions |-> d.discussions,
        events |-> (IF "events" \in tx.deleted
                    THEN d.events \ RowsOf(d.events, request_id) ELSE d.events)
                      \cup tx.events,
        mod_calls |-> (IF "mod_calls" \in tx.deleted
                       THEN d.mod_calls \ RowsOf(d.mod_calls, request_id)
                       ELSE d.mod_calls) \cup tx.mod_calls,
        mod_logs |-> {r \in d.mod_logs : r.mod_call_id \notin gone} \cup tx.mod_logs,
        requests |-> (IF IsSome(tx.row)
                      THEN (d.requests \ RowsOf(d.requests, request_id))
                               \cup {Unwrap(tx.row)}
                      ELSE d.requests)]

\* ------------------------------------------------------------------ assembling a LogResponse
\* ORDER BY: the sequences that list every row of a set once, in ascending order
\* of key[r] (a pair or a triple, compared lexicographically). Rows with equal keys may come
\* in any order, so the result is a set of sequences.
KeyLeq(a, b) ==
    \/ a[1] < b[1]
    \/ /\ a[1] = b[1]
       /\ \/ a[2] < b[2]
          \/ a[2] = b[2] /\ (Len(a) = 2 \/ a[3] <= b[3])
RECURSIVE OrderBy(_, _)
OrderBy(rows, key) ==
    IF rows = {} THEN {<<>>}
    ELSE LET least == {r \in rows : \A q \in rows : KeyLeq(key[r], key[q])}
         IN UNION {{<<r>> \o rest : rest \in OrderBy(rows \ {r}, key)} : r \in least}

\* The four child queries of fetch_log_response: the possible result lists.
fetch_events(d, request_id) ==
    LET rows == RowsOf(d.events, request_id)
    IN OrderBy(rows, [r \in rows |-> <<r.sequence_order, 0>>])
fetch_mod_calls(d, request_id) ==
    LET rows == RowsOf(d.mod_calls, request_id)
    IN OrderBy(rows, [r \in rows |-> <<r.created_at, 0>>])
fetch_mod_logs(d, request_id) ==
    LET rows == RowsOf(d.mod_logs, request_id)
    IN OrderBy(rows, [r \in rows |-> <<r.created_at, 0>>])
fetch_actions(d, request_id) ==
    LET rows == RowsOf(d.actions, request_id)
    IN OrderBy(rows, [r \in rows |-> <<r.created_at, r.action_order>>])

\* The requests query of fetch_log_response (fetch_optional).
fetch_request_row(d, request_id) ==
    LET rows == RowsOf(d.requests, request_id)
    IN IF rows = {} THEN None ELSE Some(CHOOSE r \in rows : TRUE)

\* SELECT COUNT(*) FROM discussions WHERE request_id = $1.
fetch_discussion_count(d, request_id) == Cardinality(RowsOf(d.discussions, request_id))

\* Subsequence of the elements that satisfy a test, in order.
RECURSIVE SelectSampled(_)
SelectSampled(s) ==
    IF s = <<>> THEN <<>>
    ELSE IF Len(s) = 1 THEN (IF s[1].event_type = "Sampled" THEN s ELSE <<>>)
    ELSE LET half == Len(s) \div 2
         IN SelectSampled(SubSeq(s, 1, half)) \o SelectSampled(SubSeq(s, half + 1, Len(s)))

\* LogStep of one Sampled event (row or record).
LogStepOf(e, created_at) ==
    [created_at |-> created_at, forced |-> UnwrapOr(e.forced, FALSE),
     step_index |-> e.step, token |-> e.sampled_token, token_text |-> e.token_text]

\* ActiveMod built from active_mod_name.
ActiveModOf(active_mod_name) ==
    IF IsSome(active_mod_name) THEN Some([id |-> 0, name |-> active_mod_name]) ELSE None

\* Insert key -> number into a JSON object unless the key is present.
InsertIfAbsent(object, key, value) ==
    IF IsSome(value) /\ ~ \E kv \in object : kv[1] = key
    THEN object \cup {<<key, Unwrap(value)>>} ELSE object

\* The object part of an optional details value.
ObjectOf(details) == IF IsSome(details) THEN Unwrap(details) ELSE {}

\* fetch_log_response after its queries: the response assembled from the
\* requests row, the four child lists and the discussion count.
assemble_log_response(row, events, mod_calls, mod_logs, actions, discussion_count) ==
    [actions |->
        [i \in 1..Len(actions) |->
            [action_id |-> actions[i].id, action_type |-> actions[i].action_type,
             created_at |-> actions[i].created_at,
             mod_id |-> Some(actions[i].mod_call_id),
             payload |-> InsertIfAbsent(
                             InsertIfAbsent(ObjectOf(actions[i].details), "token_count",
                                            actions[i].token_count),
                             "backtrack_steps", actions[i].backtrack_steps)]],
     active_mod |-> ActiveModOf(row.active_mod_name),
     created_ts |-> row.created_at,
     discussion_count |-> discussion_count,
     events |->
        [i \in 1..Len(events) |->
            [created_at |-> events[i].created_at, event_type |-> events[i].event_type,
             forced |-> events[i].forced, id |-> events[i].id,
             prompt_length |-> events[i].prompt_length,
             sampled_token |-> events[i].sampled_token,
             sequence_order |-> events[i].sequence_order, step |-> events[i].step,
             token_text |-> events[i].token_text]],
     favorited_by |-> row.favorited_by,
     final_text |-> row.final_text,
     final_tokens |-> row.final_token_ids,
     finished_ts |-> row.completed_at,
     is_public |-> row.is_public,
     max_steps |-> row.max_tokens,
     mod_calls |->
        [i \in 1..Len(mod_calls) |->
            [created_at |-> mod_calls[i].created_at, event_id |-> mod_calls[i].event_id,
             event_type |-> mod_calls[i].event_type,
             exception_occurred |-> mod_calls[i].exception_occurred,
             id |-> mod_calls[i].id, mod_name |-> mod_calls[i].mod_name,
             step |-> mod_calls[i].step]],
     mod_logs |->
        [i \in 1..Len(mod_logs) |->
            [created_at |-> mod_logs[i].created_at, id |-> mod_logs[i].id,
             log_level |-> mod_logs[i].log_level,
             log_message |-> mod_logs[i].log_message,
             mod_call_id |-> mod_logs[i].mod_call_id,
             mod_name |-> mod_logs[i].mod_name]],
     model_id |-> row.model,
     public_token |-> row.public_token,
     request_id |-> row.request_id,
     steps |-> LET sampled == SelectSampled(events)
               IN [i \in 1..Len(sampled) |-> LogStepOf(sampled[i], sampled[i].created_at)],
     tags |-> row.tags,
     user_api_key |-> row.user_api_key,
     user_prompt |-> row.user_prompt]

\* fetch_log_response on one state of the store: every response it can assemble
\* when nothing is written between its queries (empty when the row is missing).
fetch_log_response(d, request_id) ==
    LET row == fetch_request_row(d, request_id) IN
    IF ~ IsSome(row) THEN {}
    ELSE {assemble_log_response(Unwrap(row), e, mc, ml, a,
                                fetch_discussion_count(d, request_id)) :
            e \in fetch_events(d, request_id), mc \in fetch_mod_calls(d, request_id),
            ml \in fetch_mod_logs(d, request_id), a \in fetch_actions(d, request_id)}

\* ids.get(idx as usize).copied().unwrap_or(fallback)
GetOr(ids, idx, fallback) == UnwrapOr(VecGet(ids, AsUsize(idx)), fallback)

\* payload_to_response: the response built from the payload and the returned ids.
payload_to_response(payload, event_ids, mod_call_ids, now) ==
    [actions |->
        [i \in 1..Len(payload.actions) |->
            LET a == payload.actions[i] IN
            [action_id |-> i - 1, action_type |-> a.action_type,
             created_at |-> UnwrapOr(a.created_at, now),
             mod_id |-> Some(GetOr(mod_call_ids, a.mod_call_sequence, a.mod_call_sequence)),
             payload |-> InsertIfAbsent(
                             InsertIfAbsent(ObjectOf(a.details), "token_count",
                                            a.token_count),
                             "backtrack_steps", a.backtrack_steps)]],
     active_mod |-> ActiveModOf(payload.request.active_mod_name),
     created_ts |-> UnwrapOr(payload.request.created_at, now),
     discussion_count |-> 0,
     events |->
        [i \in 1..Len(payload.events) |->
            LET e == payload.events[i] IN
            [created_at |-> UnwrapOr(e.created_at, now), event_type |-> e.event_type,
             forced |-> e.forced, id |-> GetOr(event_ids, i - 1, i - 1),
             prompt_length |-> e.prompt_length, sampled_token |-> e.sampled_token,
             sequence_order |-> e.sequence_order, step |-> e.step,
             token_text |-> e.token_text]],
     favorited_by |-> <<>>,
     final_text |-> payload.request.final_text,
     final_tokens |-> payload.request.final_token_ids,
     finished_ts |-> payload.request.completed_at,
     is_public |-> FALSE,
     max_steps |-> payload.request.max_tokens,
     mod_calls |->
        [i \in 1..Len(payload.mod_calls) |->
            LET mc == payload.mod_calls[i] IN
            [created_at |-> UnwrapOr(mc.created_at, now),
             event_id |-> GetOr(event_ids, mc.event_sequence_order, mc.event_sequence_order),
             event_type |-> mc.event_type, exception_occurred |-> mc.exception_occurred,
             id |-> GetOr(mod_call_ids, i - 1, i - 1), mod_name |-> mc.mod_name,
             step |-> mc.step]],
     mod_logs |->
        [i \in 1..Len(payload.mod_logs) |->
            LET ml == payload.mod_logs[i] IN
            [created_at |-> UnwrapOr(ml.created_at, now), id |-> i - 1,
             log_level |-> ml.log_level, log_message |-> ml.log_message,
             mod_call_id |-> GetOr(mod_call_ids, ml.mod_call_sequence, ml.mod_call_sequence),
             mod_name |-> ml.mod_name]],
     model_id |-> payload.request.model,
     public_token |-> None,
     request_id |-> payload.request.request_id,
     steps |-> LET sampled == SelectSampled(payload.events)
               IN [i \in 1..Len(sampled) |->
                      LogStepOf(sampled[i], UnwrapOr(sampled[i].created_at, now))],
     tags |-> <<>>,
     user_api_key |-> payload.request.user_api_key,
     user_prompt |-> payload.request.user_prompt]

\* ------------------------------------------------------------------ tasks
\* The tasks that run handlers concurrently; a task runs one request at a time
\* and can be preempted at every .await.
Workers == {"w1", "w2"}
WorkerBefore(p, q) == p = "w1" /\ q = "w2"

\* Budget of the cache of the system (AppState::with_cache_size): the payloads
\* "first" and "second" are cached, "big" is above half of it.
SysMaxBytes == 6000

NoFetch == [actions |-> <<>>, events |-> <<>>, mod_calls |-> <<>>, mod_logs |-> <<>>,
            row |-> None]

\* A task that runs no request.
IdleTask ==
    [alone |-> TRUE, caller |-> None, event_ids |-> <<>>, fetched |-> NoFetch,
     mod_call_ids |-> <<>>, op |-> "idle", payload |-> None, pc |-> "idle",
     request_id |-> "", tx |-> NoTx]

\* No reply sent yet.
NoReply ==
    [body |-> None, op |-> "none", request_id |-> "", rolled_back |-> 0, status |-> 0,
     worker |-> ""]

\* ------------------------------------------------------------------ live updates
\* Capacity of the broadcast channel AppState creates.
SSE_CHANNEL_CAPACITY == 256

\* The live-update connections there can be at a time.
Subscribers == {"s1", "s2"}

\* Who connects for live updates: the callers of the handlers and a valid key
\* that is neither administrator nor scoped to an owning key.
StreamCallers == Callers \cup {Some([allowed_api_key |-> None, is_admin |-> FALSE])}

\* handle_log_websocket's is_admin, allowed_api_key and broadcast receiver (next:
\* how many notifications of log_events the receiver has passed); open is
\* whether the connection exists.
NoSubscriber ==
    [allowed_api_key |-> None, is_admin |-> FALSE, next |-> 0, open |-> FALSE]

\* What one turn of the send loop did: the message written to the socket (type
\* "new_log" or "lagged"), or "none" when the notification was skipped; index is
\* the position in log_events of the notification the turn took.
NoMessage == [data |-> None, index |-> 0, missed |-> 0, to |-> "", type |-> "none"]

\* The status ingest_payload returns after broadcast_new_log, which drops the
\* result of send (Ok when at least one receiver exists, Err otherwise).
IngestStatusFromSend(subscribers) ==
    LET send_ok == \E s \in Subscribers : subscribers[s].open
    IN IF send_ok THEN 201 ELSE 500
IngestStatus(subscribers) ==
    LET send_ok == \E s \in Subscribers : subscribers[s].open
    IN 201

\* A receive that yields the value at the cursor and leaves the cursor there.
RecvWithoutAdvance(events, next) ==
    IF next < Len(events)
    THEN [event |-> Some(events[next + 1]), kind |-> "ok", missed |-> 0, next |-> next]
    ELSE [event |-> None, kind |-> "pending", missed |-> 0, next |-> next]

\* broadcast receive at cursor next on a channel that has been sent events: the
\* channel retains the last SSE_CHANNEL_CAPACITY values; a receiver whose
\* cursor is older gets Lagged(missed) and its cursor moved to the oldest
\* retained value; otherwise it gets the value at its cursor, or waits.
Recv(events, next) ==
    LET tail == Len(events)
        oldest == IF tail > SSE_CHANNEL_CAPACITY THEN tail - SSE_CHANNEL_CAPACITY ELSE 0
    IN IF next < oldest
       THEN [event |-> None, kind |-> "lagged", missed |-> oldest - next,
             next |-> oldest]
       ELSE IF next < tail
       THEN [event |-> Some(events[next + 1]), kind |-> "ok", missed |-> 0,
             next |-> next + 1]
       ELSE [event |-> None, kind |-> "pending", missed |-> 0, next |-> next]

\* A filter that takes an absent key on either side for "no restriction".
CanSeeWhenKeyAbsent(is_admin, allowed_api_key, event) ==
    IF is_admin THEN TRUE
    ELSE IF IsSome(allowed_api_key) /\ IsSome(event.user_api_key)
    THEN Unwrap(allowed_api_key) = Unwrap(event.user_api_key)
    ELSE TRUE
CanSeeAll(is_admin, allowed_api_key, event) == TRUE
\* can_see of the send loop: administrators see everything, others the events
\* whose user_api_key is their allowed_api_key.
can_see(is_admin, allowed_api_key, event) ==
    IF is_admin THEN TRUE
    ELSE IF IsSome(allowed_api_key) /\ IsSome(event.user_api_key)
    THEN Unwrap(allowed_api_key) = Unwrap(event.user_api_key)
    ELSE FALSE

\* event_data of the send loop: the event as it is for administrators, a JSON
\* object with user_api_key null for the others.
EventDataAsIs(is_admin, event) == event
event_data(is_admin, event) ==
    IF is_admin THEN event
    ELSE [created_ts |-> event.created_ts, discussion_count |-> event.discussion_count,
          favorited_by |-> event.favorited_by, final_text |-> event.final_text,
          finished_ts |-> event.finished_ts, model_id |-> event.model_id,
          request_id |-> event.request_id, total_steps |-> event.total_steps,
          user_api_key |-> None]

\* {"type": "lagged", "missed": n}
LaggedMessageNoCount(s, n) ==
    [data |-> None, index |-> 0, missed |-> 0, to |-> s, type |-> "lagged"]
lagged_message(s, n) ==
    [data |-> None, index |-> 0, missed |-> n, to |-> s, type |-> "lagged"]

\* ------------------------------------------------------------------ LogCache under its lock
\* The threads that call the cache at the same time.
Threads == {"c1", "c2"}

\* A thread's position in a LogCache call and the locals of the call: the key,
\* the value and its size (insert), the size of the entry just removed (insert,
\* invalidate), the entries.len() read (stats).
IdleThread ==
    [entry_count |-> 0, freed |-> 0, op |-> "idle", pc |-> "idle", request_id |-> "",
     size_bytes |-> 0, value |-> None]

\* ------------------------------------------------------------------ LogCache API, call by call
\* Keys and prompt texts of the cache's own tests (make_test_response).
TestKeys == {"req-0", "req-1", "req-2", "req-3"}
TestPrompts == {"x", "xxxxxxxxxxxxxxxxxxxxxxxxxxxxxxxxxxxxxxxx"}

\* cache.rs tests: make_test_response(request_id, data_size), user_prompt being
\* data_size bytes of text; the timestamps (Utc::now()) are one instant, 0.
make_test_response(request_id, prompt) ==
    [actions |-> <<>>, active_mod |-> None, created_ts |-> 0, discussion_count |-> 0,
     events |-> <<>>, favorited_by |-> <<>>, final_text |-> Some("test output"),
     final_tokens |-> None, finished_ts |-> Some(0), is_public |-> FALSE,
     max_steps |-> None, mod_calls |-> <<>>, mod_logs |-> <<>>,
     model_id |-> Some("test-model"), public_token |-> None,
     request_id |-> request_id, steps |-> <<>>, tags |-> <<>>,
     user_api_key |-> None, user_prompt |-> Some(prompt)]

\* Budgets given to LogCache::with_max_bytes: one that holds two small test
\* responses and rejects the large one, one that holds three and accepts both.
MaxBytesChoices == {2800, 4300}

NoCall ==
    [evicted |-> <<>>, hit |-> FALSE, op |-> "none", removed |-> FALSE,
     request_id |-> "", size_bytes |-> 0]

\* ------------------------------------------------------------------ TtlCache
\* The longest time-to-live, in ticks of the clock.
MaxTtl == 2

\* TtlCache::new.
TtlCache_new(ttl) == [entries |-> <<>>, hits |-> 0, misses |-> 0, ttl |-> ttl]

\* No TtlCache call has completed (index: the number of calls completed).
NoTtlCall == [index |-> 0, key |-> "", now |-> 0, op |-> "none", value |-> None]

\* The test of get, cleanup_expired and stats: the entry expires after now.
\* The mutant also accepts the instant of expiry itself.
LiveUntilExpiry(entry, now) == entry.expires_at >= now
Live(entry, now) == entry.expires_at > now

\* warm_cache has returned and the server accepts requests.
WarmedUp ==
    [failed |-> "", pc |-> "done", queries |-> 0, request_ids |-> <<>>,
     responses |-> <<>>]

\* A TtlCache that does not take part, the clock at its start, and a server
\* past its warm-up.
NoAux ==
    /\ stmt = NoStatement
    /\ ttl_cache = TtlCache_new(MaxTtl)
    /\ clock = 0
    /\ ttl_last = NoTtlCall
    /\ warm = WarmedUp

\* Nothing has happened: an empty store, idle tasks, nobody connected for live
\* updates, no thread in a LogCache call and the lock of the map free.
NoRequests ==
    /\ db = EmptyDb
    /\ seqs = InitSeqs
    /\ tasks = [p \in Workers |-> IdleTask]
    /\ log_events = <<>>
    /\ commits = {}
    /\ started = 0
    /\ reply = NoReply
    /\ subs = [s \in Subscribers |-> NoSubscriber]
    /\ sent = NoMessage
    /\ threads = [t \in Threads |-> IdleThread]
    /\ lock = [readers |-> {}, writer |-> ""]
    /\ NoAux

InitCache ==
    /\ \E m \in MaxBytesChoices : log_cache = LogCache_with_max_bytes(m)
    /\ last = NoCall
    /\ NoRequests

\* cache.insert(request_id, value)
Insert(request_id, value) ==
    LET new == LogCache_insert(log_cache, request_id, value) IN
    /\ new.access_counter <= MaxAccess
    /\ log_cache' = new
    /\ last' = [NoCall EXCEPT !.op = "insert", !.request_id = request_id,
                   !.size_bytes = LogResponse_memory_size(value),
                   !.evicted = LogCache_insert_evicted(log_cache, request_id, value)]
    /\ UNCHANGED <<threads, lock, sysVars, auxVars>>

\* cache.get(request_id)
Get(request_id) ==
    LET new == LogCache_get(log_cache, request_id) IN
    /\ new.access_counter <= MaxAccess
    /\ new.misses <= MaxMisses
    /\ log_cache' = new
    /\ last' = [NoCall EXCEPT !.op = "get", !.request_id = request_id,
                   !.hit = IsSome(LogCache_get_value(log_cache, request_id))]
    /\ UNCHANGED <<threads, lock, sysVars, auxVars>>

\* cache.invalidate(request_id)
Invalidate(request_id) ==
    /\ log_cache' = LogCache_invalidate(log_cache, request_id)
    /\ last' = [NoCall EXCEPT !.op = "invalidate", !.request_id = request_id,
                   !.removed = (request_id \in DOMAIN log_cache.entries)]
    /\ UNCHANGED <<threads, lock, sysVars, auxVars>>

\* cache.clear()
Clear ==
    /\ log_cache' = LogCache_clear(log_cache)
    /\ last' = [NoCall EXCEPT !.op = "clear"]
    /\ UNCHANGED <<threads, lock, sysVars, auxVars>>

InsertAny == \E k \in TestKeys, p \in TestPrompts : Insert(k, make_test_response(k, p))
GetAny == \E k \in TestKeys : Get(k)
InvalidateAny == \E k \in TestKeys : Invalidate(k)

NextCache == InsertAny \/ GetAny \/ InvalidateAny \/ Clear

\* Any sequence of LogCache calls, one at a time.
Spec == InitCache /\ [][NextCache]_vars

\* ------------------------------------------------------------------ handlers, step by step
InitSys ==
    /\ log_cache = LogCache_with_max_bytes(SysMaxBytes)
    /\ last = NoCall
    /\ NoRequests

\* A request that arrives is run by a task that runs nothing; which one makes
\* no difference, so it is the first such task.
Free(p) ==
    /\ tasks[p].op = "idle"
    /\ \A q \in Workers : tasks[q].op = "idle" => ~ WorkerBefore(q, p)

\* Task p starts running t: it runs alone if no other task is running, and the
\* tasks that are running no longer run alone.
Start(p, t) ==
    [q \in Workers |->
        IF q = p THEN [t EXCEPT !.alone = \A r \in Workers \ {p} : tasks[r].op = "idle"]
        ELSE IF tasks[q].op = "idle" THEN tasks[q]
        ELSE [tasks[q] EXCEPT !.alone = FALSE]]

\* Task p returns from its handler.
Done(p) == [tasks EXCEPT ![p] = IdleTask]

\* The reply of task p's handler.
Reply(p, status, body) ==
    [body |-> body, op |-> tasks[p].op, request_id |-> tasks[p].request_id,
     rolled_back |-> 0, status |-> status, worker |-> p]

\* Number of rows a transaction has written and not committed.
TxRows(tx) ==
    (IF IsSome(tx.row) THEN 1 ELSE 0) + Cardinality(tx.events)
        + Cardinality(tx.mod_calls) + Cardinality(tx.mod_logs) + Cardinality(tx.actions)

\* An error return of ingest_payload inside the transaction: tx is dropped
\* without commit, which rolls it back. The mutants leave what the statements
\* did so far in the tables, resp. drop the cache entry of the request.
RollbackKeepsStatements(p, status) ==
    /\ tasks' = Done(p)
    /\ reply' = [Reply(p, status, None) EXCEPT !.rolled_back = TxRows(tasks[p].tx)]
    /\ db' = Commit(db, tasks[p].request_id, tasks[p].tx)
    /\ UNCHANGED <<log_cache, last, threads, lock, subs, sent, log_events, commits, started, auxVars>>
RollbackDropsCacheEntry(p, status) ==
    /\ tasks' = Done(p)
    /\ reply' = [Reply(p, status, None) EXCEPT !.rolled_back = TxRows(tasks[p].tx)]
    /\ log_cache' = LogCache_invalidate(log_cache, tasks[p].request_id)
    /\ UNCHANGED <<last, threads, lock, subs, sent, db, log_events, commits, started, auxVars>>
Rollback(p, status) ==
    /\ tasks' = Done(p)
    /\ reply' = [Reply(p, status, None) EXCEPT !.rolled_back = TxRows(tasks[p].tx)]
    /\ UNCHANGED <<log_cache, last, threads, lock, subs, sent, db, log_events, commits, started, auxVars>>

\* The requests row of request_id is locked by a transaction that has upserted
\* it and has neither committed nor rolled back.
RowLocked(request_id) ==
    \E q \in Workers : tasks[q].request_id = request_id /\ IsSome(tasks[q].tx.row)

\* ingest_payload: the request arrives and db_pool.begin() opens a transaction.
BeginIngest(p, request_id, kind) ==
    /\ Free(p)
    /\ started' = started + 1
    /\ tasks' = Start(p, [IdleTask EXCEPT !.op = "ingest", !.pc = "persist_request",
                                          !.payload = Some(Payload(request_id, kind)),
                                          !.request_id = request_id])
    /\ UNCHANGED <<log_cache, last, threads, lock, subs, sent, db, seqs, log_events, commits, reply, auxVars>>

\* 1. persist_request: the upsert waits for the row lock, then reads the
\* committed row.
IngestPersistRequest(p) ==
    /\ tasks[p].op = "ingest" /\ tasks[p].pc = "persist_request"
    /\ ~ RowLocked(tasks[p].request_id)
    /\ \E now \in NowChoices :
        tasks' = [tasks EXCEPT
            ![p].tx.row = Some(persist_request(db.requests,
                                               Unwrap(tasks[p].payload).request, now)),
            ![p].pc = "replace_events"]
    /\ UNCHANGED <<log_cache, last, threads, lock, subs, sent, db, seqs, log_events, commits, started, reply, auxVars>>

\* The statements of steps 2 to 5 of ingest_payload touch only the rows of the
\* transaction, which no other task can see before the commit, and the id
\* sequences; they are run here on w, the transaction with the ids returned so
\* far, the sequences and the error status (0 while every step returned Ok).
\* A step runs only while the status is 0 (the ? of each call).

\* 2. replace_events: DELETE, then the INSERT ... RETURNING id.
replace_events(w, request_id, events, now) ==
    LET ids == ReturnedIds(w.seqs.events, Len(events)) IN
    [w EXCEPT !.tx.deleted = @ \cup {"events"},
              !.tx.events = EventRows(request_id, events, ids, now),
              !.event_ids = ids,
              !.seqs.events = @ + Len(events)]

\* 3. replace_mod_calls: DELETE (cascading), then every event_sequence_order is
\* resolved; an unresolved one returns BadRequest, else the INSERT runs.
replace_mod_calls(w, request_id, mod_calls, now) ==
    LET ids == ReturnedIds(w.seqs.mod_calls, Len(mod_calls)) IN
    IF w.status # 0 THEN w
    ELSE IF ~ AllResolved(Resolve(w.event_ids, EventSequences(mod_calls)))
    THEN [w EXCEPT !.status = 400, !.tx.deleted = @ \cup {"mod_calls"}]
    ELSE [w EXCEPT !.tx.deleted = @ \cup {"mod_calls"},
                   !.tx.mod_calls = ModCallRows(request_id, mod_calls, w.event_ids, ids, now),
                   !.mod_call_ids = ids,
                   !.seqs.mod_calls = @ + Len(mod_calls)]

\* 4. replace_mod_logs: every mod_call_sequence is resolved, then the INSERT.
ReplaceModLogsUnchecked(w, request_id, mod_logs, now) ==
    LET ids == ReturnedIds(w.seqs.mod_logs, Len(mod_logs)) IN
    IF w.status # 0 \/ ~ AllResolved(Resolve(w.mod_call_ids, ModCallSequences(mod_logs)))
    THEN w
    ELSE [w EXCEPT !.tx.mod_logs = ModLogRows(request_id, mod_logs, w.mod_call_ids, ids, now),
                   !.seqs.mod_logs = @ + Len(mod_logs)]
replace_mod_logs(w, request_id, mod_logs, now) ==
    LET ids == ReturnedIds(w.seqs.mod_logs, Len(mod_logs)) IN
    IF w.status # 0 THEN w
    ELSE IF ~ AllResolved(Resolve(w.mod_call_ids, ModCallSequences(mod_logs)))
    THEN [w EXCEPT !.status = 400]
    ELSE [w EXCEPT !.tx.mod_logs = ModLogRows(request_id, mod_logs, w.mod_call_ids, ids, now),
                   !.seqs.mod_logs = @ + Len(mod_logs)]

\* 5. replace_actions: every mod_call_sequence is resolved, then the INSERT.
replace_actions(w, request_id, actions, now) ==
    LET ids == ReturnedIds(w.seqs.actions, Len(actions)) IN
    IF w.status # 0 THEN w
    ELSE IF ~ AllResolved(Resolve(w.mod_call_ids, ModCallSequences(actions)))
    THEN [w EXCEPT !.status = 400]
    ELSE [w EXCEPT !.tx.actions = ActionRows(request_id, actions, w.mod_call_ids, ids, now),
                   !.seqs.actions = @ + Len(actions)]

\* Steps 2 to 5 in order.
replace_children(tx, sequences, payload, now) ==
    LET request_id == payload.request.request_id
        w == [event_ids |-> <<>>, mod_call_ids |-> <<>>, seqs |-> sequences,
              status |-> 0, tx |-> tx]
    IN replace_actions(
           replace_mod_logs(
               replace_mod_calls(
                   replace_events(w, request_id, payload.events, now),
                   request_id, payload.mod_calls, now),
               request_id, payload.mod_logs, now),
           request_id, payload.actions, now)

\* Steps 2 to 5 of ingest_payload. On BadRequest the handler returns and the
\* transaction is rolled back; the sequence values it drew are not given back.
IngestReplaceChildren(p) ==
    /\ tasks[p].op = "ingest" /\ tasks[p].pc = "replace_events"
    /\ \E now \in NowChoices :
        LET w == replace_children(tasks[p].tx, seqs, Unwrap(tasks[p].payload), now) IN
        /\ seqs' = w.seqs
        /\ IF w.status = 0
           THEN /\ tasks' = [tasks EXCEPT ![p].tx = w.tx, ![p].event_ids = w.event_ids,
                                          ![p].mod_call_ids = w.mod_call_ids,
                                          ![p].pc = "commit"]
                /\ UNCHANGED <<log_cache, last, threads, lock, subs, sent, db, log_events, commits, started, reply, auxVars>>
           ELSE /\ tasks' = Done(p)
                /\ reply' = [Reply(p, w.status, None) EXCEPT !.rolled_back = TxRows(w.tx)]
                /\ UNCHANGED <<log_cache, last, threads, lock, subs, sent, db, log_events, commits, started, auxVars>>

\* What one committed ingest wrote: its requests row and its child rows.
CommitImage(request_id, tx) ==
    [actions |-> tx.actions, events |-> tx.events, mod_calls |-> tx.mod_calls,
     mod_logs |-> tx.mod_logs, request_id |-> request_id, row |-> Unwrap(tx.row)]

\* tx.commit(): the transaction's writes become visible at once and the row
\* lock is released; the handler resumes later. The mutant goes on to the
\* cache insert and the notification with the transaction still open.
RespondBeforeCommit(p) ==
    /\ tasks[p].op = "ingest" /\ tasks[p].pc = "commit"
    /\ tasks' = [tasks EXCEPT ![p].tx = NoTx, ![p].pc = "respond"]
    /\ UNCHANGED <<log_cache, last, threads, lock, subs, sent, db, seqs, log_events, commits, started, reply, auxVars>>
IngestCommit(p) ==
    /\ tasks[p].op = "ingest" /\ tasks[p].pc = "commit"
    /\ db' = Commit(db, tasks[p].request_id, tasks[p].tx)
    /\ commits' = commits \cup {CommitImage(tasks[p].request_id, tasks[p].tx)}
    /\ tasks' = [tasks EXCEPT ![p].tx = NoTx, ![p].pc = "respond"]
    /\ UNCHANGED <<log_cache, last, threads, lock, subs, sent, seqs, log_events, started, reply, auxVars>>

\* total_steps of the notification: max step + 1, 0 without events.
TotalSteps(events) ==
    IF events = <<>> THEN 0
    ELSE (CHOOSE m \in {events[i].step : i \in 1..Len(events)} :
              \A i \in 1..Len(events) : events[i].step <= m) + 1

\* The NewLogEvent ingest_payload builds from the response and the request.
NewLogEventOf(payload, response) ==
    [created_ts |-> response.created_ts, discussion_count |-> 0, favorited_by |-> <<>>,
     final_text |-> response.final_text, finished_ts |-> response.finished_ts,
     model_id |-> response.model_id, request_id |-> payload.request.request_id,
     total_steps |-> TotalSteps(payload.events),
     user_api_key |-> payload.request.user_api_key]

\* After the commit, without another .await: payload_to_response,
\* log_cache.insert, broadcast_new_log (the send appends to the channel whoever
\* is subscribed), 201 Created.
IngestRespond(p) ==
    /\ tasks[p].op = "ingest" /\ tasks[p].pc = "respond"
    /\ \E now \in NowChoices :
        LET payload == Unwrap(tasks[p].payload)
            response == payload_to_response(payload, tasks[p].event_ids,
                                            tasks[p].mod_call_ids, now)
        IN /\ log_cache' = LogCache_insert(log_cache, tasks[p].request_id, response)
           /\ log_events' = Append(log_events, NewLogEventOf(payload, response))
    /\ reply' = Reply(p, IngestStatus(subs), None)
    /\ tasks' = Done(p)
    /\ UNCHANGED <<last, threads, lock, subs, sent, db, seqs, commits, started, auxVars>>

\* A statement of the transaction (BEGIN, a DELETE, an INSERT, COMMIT) fails in
\* the store: ApiError::Database, 500, the transaction is rolled back.
IngestStoreError(p) ==
    /\ tasks[p].op = "ingest" /\ tasks[p].pc # "respond"
    /\ Rollback(p, 500)
    /\ UNCHANGED seqs

\* check_access of get_log: 0 when access is granted, else the error status.
check_access(log, caller) ==
    IF log.is_public THEN 0
    ELSE IF ~ IsSome(caller) THEN 401
    ELSE IF Unwrap(caller).is_admin THEN 0
    ELSE IF IsSome(Unwrap(caller).allowed_api_key)
            /\ log.user_api_key = Unwrap(caller).allowed_api_key THEN 0
    ELSE 403

caller_is_admin(caller) == IsSome(caller) /\ Unwrap(caller).is_admin

\* The body get_log returns: user_api_key hidden from non-administrators.
Served(log, caller) ==
    IF caller_is_admin(caller) THEN log ELSE [log EXCEPT !.user_api_key = None]

\* get_log up to its first store query: log_cache.get, and on a hit
\* check_access and the reply.
BeginGetLog(p, request_id, caller) ==
    /\ Free(p)
    /\ started' = started + 1
    /\ log_cache' = LogCache_get(log_cache, request_id)
    /\ LET cached == LogCache_get_value(log_cache, request_id)
           t == [IdleTask EXCEPT !.op = "get_log", !.pc = "fetch_row",
                                 !.caller = caller, !.request_id = request_id]
       IN IF IsSome(cached)
          THEN /\ tasks' = [Start(p, t) EXCEPT ![p] = IdleTask]
               /\ reply' = [body |-> IF check_access(Unwrap(cached), caller) = 0
                                     THEN Some(Served(Unwrap(cached), caller)) ELSE None,
                            op |-> "get_log", request_id |-> request_id,
                            rolled_back |-> 0,
                            status |-> IF check_access(Unwrap(cached), caller) = 0
                                       THEN 200 ELSE check_access(Unwrap(cached), caller),
                            worker |-> p]
          ELSE /\ tasks' = Start(p, t)
               /\ UNCHANGED reply
    /\ UNCHANGED <<last, threads, lock, subs, sent, db, seqs, log_events, commits, auxVars>>

\* The handlers that answer with fetch_log_response on a cache miss.
FetchOps == {"get_log", "get_public_request", "get_request_via_collection"}

\* fetch_log_response, the requests query; NotFound when there is no row.
GetLogFetchRow(p) ==
    /\ tasks[p].op \in FetchOps /\ tasks[p].pc = "fetch_row"
    /\ LET row == fetch_request_row(db, tasks[p].request_id)
       IN IF IsSome(row)
          THEN /\ tasks' = [tasks EXCEPT ![p].fetched.row = row, ![p].pc = "fetch_events"]
               /\ UNCHANGED reply
          ELSE /\ tasks' = Done(p)
               /\ reply' = Reply(p, 404, None)
    /\ UNCHANGED <<log_cache, last, threads, lock, subs, sent, db, seqs, log_events, commits, started, auxVars>>

\* fetch_log_response, the events query.
GetLogFetchEvents(p) ==
    /\ tasks[p].op \in FetchOps /\ tasks[p].pc = "fetch_events"
    /\ \E rows \in fetch_events(db, tasks[p].request_id) :
        tasks' = [tasks EXCEPT ![p].fetched.events = rows, ![p].pc = "fetch_mod_calls"]
    /\ UNCHANGED <<log_cache, last, threads, lock, subs, sent, db, seqs, log_events, commits, started, reply, auxVars>>

\* fetch_log_response, the mod_calls query.
GetLogFetchModCalls(p) ==
    /\ tasks[p].op \in FetchOps /\ tasks[p].pc = "fetch_mod_calls"
    /\ \E rows \in fetch_mod_calls(db, tasks[p].request_id) :
        tasks' = [tasks EXCEPT ![p].fetched.mod_calls = rows, ![p].pc = "fetch_mod_logs"]
    /\ UNCHANGED <<log_cache, last, threads, lock, subs, sent, db, seqs, log_events, commits, started, reply, auxVars>>

\* fetch_log_response, the mod_logs query.
GetLogFetchModLogs(p) ==
    /\ tasks[p].op \in FetchOps /\ tasks[p].pc = "fetch_mod_logs"
    /\ \E rows \in fetch_mod_logs(db, tasks[p].request_id) :
        tasks' = [tasks EXCEPT ![p].fetched.mod_logs = rows, ![p].pc = "fetch_actions"]
    /\ UNCHANGED <<log_cache, last, threads, lock, subs, sent, db, seqs, log_events, commits, started, reply, auxVars>>

\* fetch_log_response, the actions query.
GetLogFetchActions(p) ==
    /\ tasks[p].op \in FetchOps /\ tasks[p].pc = "fetch_actions"
    /\ \E rows \in fetch_actions(db, tasks[p].request_id) :
        tasks' = [tasks EXCEPT ![p].fetched.actions = rows, ![p].pc = "fetch_discussions"]
    /\ UNCHANGED <<log_cache, last, threads, lock, subs, sent, db, seqs, log_events, commits, started, reply, auxVars>>

\* The response a get_log task assembles from what it has fetched and the
\* discussion count it reads last.
Assembled(p) ==
    assemble_log_response(Unwrap(tasks[p].fetched.row), tasks[p].fetched.events,
                          tasks[p].fetched.mod_calls, tasks[p].fetched.mod_logs,
                          tasks[p].fetched.actions,
                          fetch_discussion_count(db, tasks[p].request_id))

\* A get_log that caches what it fetched before it checks the caller's access.
GetLogCachesBeforeCheck(p) ==
    /\ tasks[p].op = "get_log" /\ tasks[p].pc = "fetch_discussions"
    /\ LET response == Assembled(p)
           denied == check_access(response, tasks[p].caller)
       IN /\ log_cache' = LogCache_insert(log_cache, tasks[p].request_id, response)
          /\ reply' = IF denied = 0
                      THEN Reply(p, 200, Some(Served(response, tasks[p].caller)))
                      ELSE Reply(p, denied, None)
    /\ tasks' = Done(p)
    /\ UNCHANGED <<last, threads, lock, subs, sent, db, seqs, log_events, commits, started, auxVars>>

\* fetch_log_response, the discussions count, and the rest of get_log without
\* another .await: check_access, log_cache.insert, the reply.
GetLogRespond(p) ==
    /\ tasks[p].op = "get_log" /\ tasks[p].pc = "fetch_discussions"
    /\ LET response == Assembled(p)
           denied == check_access(response, tasks[p].caller)
       IN IF denied = 0
          THEN /\ log_cache' = LogCache_insert(log_cache, tasks[p].request_id, response)
               /\ reply' = Reply(p, 200, Some(Served(response, tasks[p].caller)))
          ELSE /\ UNCHANGED log_cache
               /\ reply' = Reply(p, denied, None)
    /\ tasks' = Done(p)
    /\ UNCHANGED <<last, threads, lock, subs, sent, db, seqs, log_events, commits, started, auxVars>>

\* The tokens generate_public_token may produce (32 random bytes, hex encoded).
PublicTokens == {"tok-a", "tok-b"}

\* make_request_public / make_request_private up to the UPDATE: authentication,
\* the SELECT of the row, and the ownership check.
BeginVisibility(p, op, request_id, caller) ==
    /\ Free(p)
    /\ started' = started + 1
    /\ LET t == [IdleTask EXCEPT !.op = op, !.pc = "update", !.caller = caller,
                                 !.request_id = request_id]
           row == fetch_request_row(db, request_id)
           status == IF ~ IsSome(caller) THEN 401
                     ELSE IF ~ IsSome(row) THEN 404
                     ELSE IF ~ Unwrap(caller).is_admin
                             /\ IsSome(Unwrap(caller).allowed_api_key)
                             /\ Unwrap(row).user_api_key # Unwrap(caller).allowed_api_key
                          THEN 403
                     ELSE 0
       IN IF status = 0
          THEN /\ tasks' = Start(p, t)
               /\ UNCHANGED reply
          ELSE /\ tasks' = [Start(p, t) EXCEPT ![p] = IdleTask]
               /\ reply' = [body |-> None, op |-> op, request_id |-> request_id,
                            rolled_back |-> 0, status |-> status, worker |-> p]
    /\ UNCHANGED <<log_cache, last, threads, lock, subs, sent, db, seqs, log_events, commits, auxVars>>

\* UPDATE requests SET is_public = .., public_token = .. WHERE request_id = $1.
SetVisibility(requests, request_id, is_public, public_token) ==
    {IF r.request_id = request_id
     THEN [r EXCEPT !.is_public = is_public, !.public_token = public_token]
     ELSE r : r \in requests}

\* The UPDATE of make_request_public / make_request_private; it waits for the
\* row lock of a transaction that has upserted the row.
VisibilityUpdate(p) ==
    /\ tasks[p].op \in {"make_public", "make_private"} /\ tasks[p].pc = "update"
    /\ ~ RowLocked(tasks[p].request_id)
    /\ IF tasks[p].op = "make_public"
       THEN \E token \in PublicTokens :
                db' = [db EXCEPT !.requests =
                          SetVisibility(@, tasks[p].request_id, TRUE, Some(token))]
       ELSE db' = [db EXCEPT !.requests =
                      SetVisibility(@, tasks[p].request_id, FALSE, None)]
    /\ tasks' = [tasks EXCEPT ![p].pc = "invalidate"]
    /\ UNCHANGED <<log_cache, last, threads, lock, subs, sent, seqs, log_events, commits, started, reply, auxVars>>

\* After the UPDATE, without another .await: log_cache.invalidate and the reply.
VisibilityRespond(p) ==
    /\ tasks[p].op \in {"make_public", "make_private"} /\ tasks[p].pc = "invalidate"
    /\ log_cache' = LogCache_invalidate(log_cache, tasks[p].request_id)
    /\ reply' = Reply(p, 200, None)
    /\ tasks' = Done(p)
    /\ UNCHANGED <<last, threads, lock, subs, sent, db, seqs, log_events, commits, started, auxVars>>

IngestArrives ==
    /\ started < MaxRequests
    /\ \E p \in Workers, request_id \in RequestIds, kind \in PayloadKinds :
          BeginIngest(p, request_id, kind)
GetLogArrives ==
    /\ started < MaxRequests
    /\ \E p \in Workers, request_id \in RequestIds, caller \in Callers :
          BeginGetLog(p, request_id, caller)
VisibilityArrives ==
    /\ started < MaxRequests
    /\ \E p \in Workers, op \in {"make_public", "make_private"},
          request_id \in RequestIds, caller \in Callers :
          BeginVisibility(p, op, request_id, caller)

NextIngest ==
    \/ IngestArrives
    \/ \E p \in Workers :
        \/ IngestPersistRequest(p)
        \/ IngestReplaceChildren(p)
        \/ IngestCommit(p)
        \/ IngestRespond(p)
        \/ IngestStoreError(p)

\* Ingests only, running concurrently on the tasks: every write to the trace
\* tables and every notification comes from these steps.
SpecIngest == InitSys /\ [][NextIngest]_vars

NextSys ==
    \/ NextIngest
    \/ GetLogArrives
    \/ VisibilityArrives
    \/ \E p \in Workers :
        \/ GetLogFetchRow(p)
        \/ GetLogFetchEvents(p)
        \/ GetLogFetchModCalls(p)
        \/ GetLogFetchModLogs(p)
        \/ GetLogFetchActions(p)
        \/ GetLogRespond(p)
        \/ VisibilityUpdate(p)
        \/ VisibilityRespond(p)

\* The handlers running concurrently on the tasks, over one store and one cache.
SpecSys == InitSys /\ [][NextSys]_vars

\* ------------------------------------------------------------------ live-update connections
\* stream_logs: without a valid api_key the upgrade is refused with 401; else
\* handle_log_websocket subscribes (a new receiver starts at the channel's
\* tail) and the connection takes the first free slot.
Subscribe(s, caller) ==
    /\ started' = started + 1
    /\ IF ~ IsSome(caller)
       THEN /\ s = "s1"
            /\ reply' = [body |-> None, op |-> "stream_logs", request_id |-> "",
                         rolled_back |-> 0, status |-> 401, worker |-> ""]
            /\ UNCHANGED subs
       ELSE /\ ~ subs[s].open
            /\ s = "s2" => subs["s1"].open
            /\ subs' = [subs EXCEPT ![s] =
                           [allowed_api_key |-> Unwrap(caller).allowed_api_key,
                            is_admin |-> Unwrap(caller).is_admin,
                            next |-> Len(log_events), open |-> TRUE]]
            /\ UNCHANGED reply
    /\ UNCHANGED <<log_cache, last, threads, lock, db, seqs, tasks, log_events, commits, sent, auxVars>>

\* One turn of the send loop of subscriber s: the stream yields a notification
\* or Lagged, and the loop writes a message to the socket ({"type": "new_log",
\* "data": event_data} or the lagged message) or continues.
SubscriberNext(s) ==
    /\ subs[s].open
    /\ LET r == Recv(log_events, subs[s].next) IN
       /\ r.kind # "pending"
       /\ subs' = [subs EXCEPT ![s].next = r.next]
       /\ sent' = IF r.kind = "lagged" THEN lagged_message(s, r.missed)
                  ELSE IF can_see(subs[s].is_admin, subs[s].allowed_api_key, Unwrap(r.event))
                  THEN [data |-> Some(event_data(subs[s].is_admin, Unwrap(r.event))),
                        index |-> r.next, missed |-> 0, to |-> s, type |-> "new_log"]
                  ELSE [data |-> None, index |-> r.next, missed |-> 0, to |-> s,
                        type |-> "none"]
    /\ UNCHANGED <<log_cache, last, threads, lock, db, seqs, tasks, log_events, commits, started,
                   reply, auxVars>>

\* The client closes the socket: both tasks of the connection end and the
\* receiver is dropped.
Disconnect(s) ==
    /\ subs[s].open
    /\ subs' = [subs EXCEPT ![s] = NoSubscriber]
    /\ UNCHANGED <<log_cache, last, threads, lock, db, seqs, tasks, log_events, commits, started,
                   reply, sent, auxVars>>

\* Ingests of a trace owned by K1 and of one without an owning key, and
\* live-update connections, running concurrently.
NextStream ==
    \/ /\ started < MaxRequests
       /\ \E p \in Workers, request_id \in RequestIds, kind \in {"first", "unowned"} :
             BeginIngest(p, request_id, kind)
    \/ /\ started < MaxRequests
       /\ \E s \in Subscribers, caller \in StreamCallers : Subscribe(s, caller)
    \/ \E p \in Workers :
        \/ IngestPersistRequest(p)
        \/ IngestReplaceChildren(p)
        \/ IngestCommit(p)
        \/ IngestRespond(p)
    \/ \E s \in Subscribers :
        \/ SubscriberNext(s)
        \/ Disconnect(s)

SpecStream == InitSys /\ [][NextStream]_vars

\* tokio runs a handler that is ready: an ingest that has committed goes on to
\* its reply. Nothing makes a client read its socket.
SpecStreamFair == SpecStream /\ \A p \in Workers : WF_vars(IngestRespond(p))

\* Ingests of a valid payload and of payloads whose mod log or action has a
\* mod_call_sequence that refers to no mod call, running concurrently.
NextRefs ==
    \/ /\ started < MaxRequests
       /\ \E p \in Workers, request_id \in RequestIds,
             kind \in {"second", "bad_log_high", "bad_log_neg", "bad_action_high",
                       "bad_action_neg"} :
             BeginIngest(p, request_id, kind)
    \/ \E p \in Workers :
        \/ IngestPersistRequest(p)
        \/ IngestReplaceChildren(p)
        \/ IngestCommit(p)
        \/ IngestRespond(p)

SpecRefs == InitSys /\ [][NextRefs]_vars

\* Ingests of a payload with children and of payloads with empty arrays, and
\* reads by an administrator, running concurrently.
NextEmpty ==
    \/ /\ started < MaxRequests
       /\ \E p \in Workers, request_id \in RequestIds,
             kind \in {"first", "empty", "big_empty"} :
             BeginIngest(p, request_id, kind)
    \/ /\ started < MaxRequests
       /\ \E p \in Workers, request_id \in RequestIds : BeginGetLog(p, request_id, Admin)
    \/ \E p \in Workers :
        \/ IngestPersistRequest(p)
        \/ IngestReplaceChildren(p)
        \/ IngestCommit(p)
        \/ IngestRespond(p)
        \/ GetLogFetchRow(p)
        \/ GetLogFetchEvents(p)
        \/ GetLogFetchModCalls(p)
        \/ GetLogFetchModLogs(p)
        \/ GetLogFetchActions(p)
        \/ GetLogRespond(p)

SpecEmpty == InitSys /\ [][NextEmpty]_vars

\* The state in which trace t1 has been ingested (payload "first") and made
\* public by its owner, every request complete: the row is public in the store
\* and make_request_public has invalidated the cache entry.
InitPublic ==
    LET payload == Payload("t1", "first")
        row == persist_request(EmptyDb.requests, payload.request, 50)
        w == replace_children([NoTx EXCEPT !.row = Some(row)], InitSeqs, payload, 50)
        response == payload_to_response(payload, w.event_ids, w.mod_call_ids, 50)
    IN /\ db = [Commit(EmptyDb, "t1", w.tx) EXCEPT
                   !.requests = SetVisibility(@, "t1", TRUE, Some("tok-a"))]
       /\ seqs = w.seqs
       /\ commits = {CommitImage("t1", w.tx)}
       /\ log_cache = LogCache_invalidate(
                          LogCache_insert(LogCache_with_max_bytes(SysMaxBytes), "t1",
                                          response), "t1")
       /\ log_events = <<NewLogEventOf(payload, response)>>
       /\ tasks = [p \in Workers |-> IdleTask]
       /\ started = 0
       /\ reply = NoReply
       /\ last = NoCall
       /\ subs = [s \in Subscribers |-> NoSubscriber]
       /\ sent = NoMessage
       /\ threads = [t \in Threads |-> IdleThread]
       /\ lock = [readers |-> {}, writer |-> ""]
       /\ NoAux

\* The handlers running concurrently on a store that holds a public trace.
SpecAccess == InitPublic /\ [][NextSys]_vars

\* ------------------------------------------------------------------ LogCache, statement by statement
\* Calls made by the threads together.
MaxCalls == 4

\* entries.write(): granted while nobody holds the lock (lock.writer is the
\* thread holding it for writing, lock.readers those holding it for reading).
CanWriteDespiteReaders == lock.writer = ""
CanWrite == lock.writer = "" /\ lock.readers = {}

\* LogCache::insert by thread t: the size test before the lock; under the write
\* lock the removal of an existing entry and its refund, the eviction loop with
\* the refund of each evicted entry, the insertion and the fetch_add; the lock
\* is released when the call returns.
ThreadInsert(t) ==
    LET me == threads[t]
        at(pc) == me.op = "insert" /\ me.pc = pc
        goto(pc) == threads' = [threads EXCEPT ![t].pc = pc]
    IN
    /\ \/ /\ me.op = "idle" /\ started < MaxCalls
          /\ started' = started + 1
          /\ \E request_id \in TestKeys \ {"req-3"}, prompt \in TestPrompts :
                LET value == make_test_response(request_id, prompt)
                    size_bytes == LogResponse_memory_size(value)
                IN threads' = IF TooLarge(size_bytes, log_cache.max_bytes) THEN threads
                              ELSE [threads EXCEPT ![t] =
                                       [IdleThread EXCEPT !.op = "insert", !.pc = "lock",
                                                          !.request_id = request_id,
                                                          !.size_bytes = size_bytes,
                                                          !.value = Some(value)]]
          /\ UNCHANGED <<log_cache, lock>>
       \/ /\ at("lock") /\ CanWrite
          /\ lock' = [lock EXCEPT !.writer = t]
          /\ IF me.request_id \in DOMAIN log_cache.entries
             THEN /\ log_cache' = [log_cache EXCEPT !.entries = MapRemove(@, me.request_id)]
                  /\ threads' = [threads EXCEPT
                                    ![t].freed = RefundExisting(log_cache, me.request_id),
                                    ![t].pc = "refund"]
             ELSE goto("evict") /\ UNCHANGED log_cache
          /\ UNCHANGED started
       \/ /\ at("refund")
          /\ log_cache' = [log_cache EXCEPT !.current_bytes = @ - me.freed]
          /\ goto("evict")
          /\ UNCHANGED <<lock, started>>
       \/ /\ at("evict")
          /\ IF log_cache.current_bytes + me.size_bytes > log_cache.max_bytes
                /\ DOMAIN log_cache.entries # {}
             THEN LET key == LruKey(log_cache.entries) IN
                  /\ log_cache' = [log_cache EXCEPT !.entries = MapRemove(@, key)]
                  /\ threads' = [threads EXCEPT
                                    ![t].freed = log_cache.entries[key].size_bytes,
                                    ![t].pc = "refund"]
             ELSE /\ log_cache' =
                        [log_cache EXCEPT
                            !.entries = MapInsert(@, me.request_id,
                                                  [access_order |-> log_cache.access_counter,
                                                   size_bytes |-> me.size_bytes,
                                                   value |-> Unwrap(me.value)]),
                            !.access_counter = @ + 1]
                  /\ goto("add")
          /\ UNCHANGED <<lock, started>>
       \/ /\ at("add")
          /\ log_cache' = [log_cache EXCEPT !.current_bytes = @ + me.size_bytes]
          /\ threads' = [threads EXCEPT ![t] = IdleThread]
          /\ lock' = [lock EXCEPT !.writer = ""]
          /\ UNCHANGED started
    /\ UNCHANGED <<last, db, seqs, tasks, log_events, commits, reply, subs, sent, auxVars>>

\* LogCache::get by thread t: contains_key under the read lock, which is
\* released; then, if the key was there, the write lock, get_mut and the
\* recency and counter updates. last takes the outcome of the call: hit when a
\* value is returned, removed when the key passed the first check and was gone
\* under the write lock.
ThreadGet(t) ==
    LET me == threads[t] IN
    /\ \/ /\ me.op = "idle" /\ started < MaxCalls /\ lock.writer = ""
          /\ started' = started + 1
          /\ \E request_id \in TestKeys \ {"req-3"} :
                IF request_id \in DOMAIN log_cache.entries
                THEN /\ threads' = [threads EXCEPT ![t] =
                                       [IdleThread EXCEPT !.op = "get", !.pc = "write",
                                                          !.request_id = request_id]]
                     /\ UNCHANGED <<log_cache, last>>
                ELSE /\ log_cache' = CountGet(log_cache, FALSE)
                     /\ last' = [NoCall EXCEPT !.op = "get", !.request_id = request_id]
                     /\ UNCHANGED threads
          /\ UNCHANGED lock
       \/ /\ me.op = "get" /\ me.pc = "write" /\ CanWrite
          /\ log_cache' = LogCache_get(log_cache, me.request_id)
          /\ last' = [NoCall EXCEPT
                         !.op = "get", !.request_id = me.request_id,
                         !.hit = IsSome(LogCache_get_value(log_cache, me.request_id)),
                         !.removed = ~ IsSome(LogCache_get_value(log_cache, me.request_id))]
          /\ threads' = [threads EXCEPT ![t] = IdleThread]
          /\ UNCHANGED <<lock, started>>
    /\ UNCHANGED <<db, seqs, tasks, log_events, commits, reply, subs, sent, auxVars>>

\* LogCache::invalidate by thread t: under the write lock, the removal and, if
\* an entry was removed, its refund.
ThreadInvalidate(t) ==
    LET me == threads[t] IN
    /\ \/ /\ me.op = "idle" /\ started < MaxCalls /\ CanWrite
          /\ started' = started + 1
          /\ \E request_id \in TestKeys \ {"req-3"} :
                IF request_id \in DOMAIN log_cache.entries
                THEN /\ log_cache' = [log_cache EXCEPT !.entries = MapRemove(@, request_id)]
                     /\ threads' = [threads EXCEPT ![t] =
                                       [IdleThread EXCEPT
                                           !.op = "invalidate", !.pc = "refund",
                                           !.request_id = request_id,
                                           !.freed = log_cache.entries[request_id].size_bytes]]
                     /\ lock' = [lock EXCEPT !.writer = t]
                ELSE UNCHANGED <<log_cache, threads, lock>>
       \/ /\ me.op = "invalidate" /\ me.pc = "refund"
          /\ log_cache' = [log_cache EXCEPT !.current_bytes = @ - me.freed]
          /\ threads' = [threads EXCEPT ![t] = IdleThread]
          /\ lock' = [lock EXCEPT !.writer = ""]
          /\ UNCHANGED started
    /\ UNCHANGED <<last, db, seqs, tasks, log_events, commits, reply, subs, sent, auxVars>>

\* LogCache::clear by thread t: under the write lock, entries.clear() and then
\* current_bytes.store(0).
ThreadClear(t) ==
    LET me == threads[t] IN
    /\ \/ /\ me.op = "idle" /\ started < MaxCalls /\ CanWrite
          /\ started' = started + 1
          /\ log_cache' = [log_cache EXCEPT !.entries = <<>>]
          /\ threads' = [threads EXCEPT ![t] =
                            [IdleThread EXCEPT !.op = "clear", !.pc = "store"]]
          /\ lock' = [lock EXCEPT !.writer = t]
       \/ /\ me.op = "clear" /\ me.pc = "store"
          /\ log_cache' = [log_cache EXCEPT !.current_bytes = 0]
          /\ threads' = [threads EXCEPT ![t] = IdleThread]
          /\ lock' = [lock EXCEPT !.writer = ""]
          /\ UNCHANGED started
    /\ UNCHANGED <<last, db, seqs, tasks, log_events, commits, reply, subs, sent, auxVars>>

\* LogCache::stats by thread t: under the read lock, entries.len() and then
\* current_bytes.load(); last takes the snapshot returned.
ThreadStats(t) ==
    LET me == threads[t] IN
    /\ \/ /\ me.op = "idle" /\ started < MaxCalls /\ lock.writer = ""
          /\ started' = started + 1
          /\ threads' = [threads EXCEPT ![t] =
                            [IdleThread EXCEPT
                                !.op = "stats", !.pc = "load",
                                !.entry_count = Cardinality(DOMAIN log_cache.entries)]]
          /\ lock' = [lock EXCEPT !.readers = @ \cup {t}]
          /\ UNCHANGED last
       \/ /\ me.op = "stats" /\ me.pc = "load"
          /\ last' = [NoCall EXCEPT !.op = "stats", !.size_bytes = log_cache.current_bytes,
                                    !.request_id = t]
          /\ threads' = [threads EXCEPT ![t] = IdleThread]
          /\ lock' = [lock EXCEPT !.readers = @ \ {t}]
          /\ UNCHANGED started
    /\ UNCHANGED <<log_cache, db, seqs, tasks, log_events, commits, reply, subs, sent, auxVars>>

NextLocks ==
    \E t \in Threads :
        \/ ThreadInsert(t)
        \/ ThreadGet(t)
        \/ ThreadInvalidate(t)
        \/ ThreadClear(t)
        \/ ThreadStats(t)

\* The threads calling one LogCache concurrently.
SpecLocks == InitCache /\ [][NextLocks]_vars

\* Notifications published on one channel.
MaxPublished == 258

\* AppState::broadcast_new_log called with the notification of a trace of K1;
\* total_steps tells the notifications apart.
Publish ==
    /\ Len(log_events) < MaxPublished
    /\ log_events' = Append(log_events,
                           [created_ts |-> 50, discussion_count |-> 0,
                            favorited_by |-> <<>>, final_text |-> Some("Response text"),
                            finished_ts |-> None, model_id |-> Some("test-model"),
                            request_id |-> "t1", total_steps |-> Len(log_events),
                            user_api_key |-> Some("K1")])
    /\ UNCHANGED <<log_cache, last, threads, lock, db, seqs, tasks, commits, started, reply,
                   subs, sent, auxVars>>

\* One connection, of an administrator or of the owner, opened before the first
\* notification, and the channel filling while the client reads or does not.
NextLag ==
    \/ /\ log_events = <<>>
       /\ \E caller \in {Admin, UserOf("K1")} : Subscribe("s1", caller)
    \/ Publish
    \/ SubscriberNext("s1")

SpecLag == InitSys /\ [][NextLag]_vars

\* ------------------------------------------------------------------ properties of the LogCache API
\* Sum of the recorded sizes of a set of keys of an entries map.
RECURSIVE SizeOfKeys(_, _)
SizeOfKeys(entries, keys) ==
    IF keys = {} THEN 0
    ELSE LET k == CHOOSE x \in keys : TRUE
         IN entries[k].size_bytes + SizeOfKeys(entries, keys \ {k})

\* The elements of a sequence.
Range(s) == {s[i] : i \in 1..Len(s)}

\* C1: after every insert returns, current_bytes <= max_bytes, whatever calls
\* came before and whatever the budget.
C1_BudgetHoldsAfterInsert ==
    last.op = "insert" => log_cache.current_bytes <= log_cache.max_bytes

\* An insert that had to evict two entries to fit has returned.
C1_Witness ==
    /\ last.op = "insert"
    /\ Len(last.evicted) = 2
    /\ last.request_id \in DOMAIN log_cache.entries

\* C7: a non-oversized insert that evicts removes entries in ascending order of
\* last access, each victim being older than everything left, and stops as soon
\* as the new value fits (without its last victim the value did not fit); the
\* order of last access is the order of access_order: a get hit and an insert
\* give their entry the newest access_order and change no other entry's.
C7_EvictsLeastRecentlyUsedFirst ==
    [][ /\ (last'.op = "insert" /\ 2 * last'.size_bytes <= log_cache.max_bytes) =>
            LET k == last'.request_id
                ev == last'.evicted
                old == MapRemove(log_cache.entries, k)
                kept == DOMAIN old \ Range(ev)
            IN /\ Range(ev) \subseteq DOMAIN old
               /\ Len(ev) = Cardinality(Range(ev))
               /\ \A i \in 1..Len(ev) :
                      \A j \in DOMAIN old \ {ev[n] : n \in 1..i} :
                          old[ev[i]].access_order < old[j].access_order
               /\ DOMAIN log_cache'.entries = kept \cup {k}
               /\ \A j \in kept : log_cache'.entries[j] = old[j]
               /\ SizeOfKeys(old, kept) + last'.size_bytes <= log_cache.max_bytes
               /\ Len(ev) > 0 =>
                      SizeOfKeys(old, kept \cup {ev[Len(ev)]}) + last'.size_bytes
                          > log_cache.max_bytes
        /\ ((last'.op = "insert" /\ 2 * last'.size_bytes <= log_cache.max_bytes)
              \/ (last'.op = "get" /\ last'.hit)) =>
            LET k == last'.request_id IN
            \A j \in DOMAIN log_cache'.entries \ {k} :
                /\ log_cache'.entries[k].access_order > log_cache'.entries[j].access_order
                /\ log_cache'.entries[j].access_order = log_cache.entries[j].access_order
      ]_cacheVars

\* A (req-0), B (req-1), C (req-2) were inserted in that order, A was read, and
\* the insert of req-3 evicted exactly B: A, C and the new entry remain.
C7_Witness ==
    /\ last.op = "insert" /\ last.request_id = "req-3"
    /\ last.evicted = <<"req-1">>
    /\ DOMAIN log_cache.entries = {"req-0", "req-2", "req-3"}
    /\ log_cache.entries["req-2"].access_order = 2
    /\ log_cache.entries["req-0"].access_order = 3
    /\ log_cache.hits = 1

\* C8: an insert of a value whose estimated size exceeds max_bytes / 2 leaves
\* entry_count and current_bytes as they were, and removes no entry, whether or
\* not the key is cached.
C8_OversizedInsertChangesNothing ==
    [][ (last'.op = "insert" /\ 2 * last'.size_bytes > log_cache.max_bytes) =>
            /\ LogCache_stats(log_cache').entry_count = LogCache_stats(log_cache).entry_count
            /\ LogCache_stats(log_cache').current_bytes = LogCache_stats(log_cache).current_bytes
            /\ log_cache'.entries = log_cache.entries
      ]_cacheVars

\* An oversized insert for a key that is cached (with a smaller value) has returned.
C8_Witness ==
    /\ last.op = "insert"
    /\ 2 * last.size_bytes > log_cache.max_bytes
    /\ last.request_id \in DOMAIN log_cache.entries
    /\ Cardinality(DOMAIN log_cache.entries) = 2

\* C10: get on an absent key adds exactly 1 to misses and leaves hits; get on a
\* present key adds exactly 1 to hits and leaves misses.
C10_GetCountsHitOrMiss ==
    [][ last'.op = "get" =>
            IF last'.request_id \in DOMAIN log_cache.entries
            THEN /\ log_cache'.hits = log_cache.hits + 1
                 /\ log_cache'.misses = log_cache.misses
            ELSE /\ log_cache'.misses = log_cache.misses + 1
                 /\ log_cache'.hits = log_cache.hits
      ]_cacheVars

\* A get that hit has returned after an earlier get missed.
C10_Witness ==
    /\ last.op = "get" /\ last.hit
    /\ log_cache.hits = 1 /\ log_cache.misses = 1

\* The value an insert call was given: the test response of its key with the
\* size the call measured.
InsertedValue(call) ==
    CHOOSE v \in {make_test_response(call.request_id, p) : p \in TestPrompts} :
        LogResponse_memory_size(v) = call.size_bytes

\* C18: a non-oversized insert(k, v2) on a cache that holds k with v1 leaves k
\* cached with v2 and v2's size, get(k) would return v2, and current_bytes is
\* what it was less v1's size and the sizes of the entries evicted plus v2's
\* size, which is the sum of the sizes of the entries then in the map.
C18_SecondInsertWinsAndRefunds ==
    [][ (/\ last'.op = "insert"
         /\ ~ TooLarge(last'.size_bytes, log_cache.max_bytes)
         /\ last'.request_id \in DOMAIN log_cache.entries)
        => LET k == last'.request_id
               v1 == log_cache.entries[k]
               gone == Range(last'.evicted)
           IN /\ LogCache_get_value(log_cache', k) = Some(InsertedValue(last'))
              /\ log_cache'.entries[k].size_bytes = last'.size_bytes
              /\ log_cache'.current_bytes =
                     log_cache.current_bytes - v1.size_bytes
                       - SizeOfKeys(log_cache.entries, gone) + last'.size_bytes
              /\ log_cache'.current_bytes =
                     SizeOfKeys(log_cache'.entries, DOMAIN log_cache'.entries)
              /\ DOMAIN log_cache'.entries = (DOMAIN log_cache.entries \ gone) \cup {k}
      ]_cacheVars

\* insert(k, v2) has returned on a cache that held k with a value of another
\* size and one more entry: k holds the large value, and current_bytes is the
\* large value's size plus the other entry's.
C18_Witness ==
    /\ last.op = "insert" /\ last.evicted = <<>>
    /\ log_cache.max_bytes = 4300
    /\ Cardinality(DOMAIN log_cache.entries) = 2
    /\ last.request_id \in DOMAIN log_cache.entries
    /\ log_cache.entries[last.request_id].access_order = 2
    /\ log_cache.entries[last.request_id].value.user_prompt # Some("x")
    /\ \E j \in DOMAIN log_cache.entries :
          /\ j # last.request_id
          /\ log_cache.current_bytes = last.size_bytes + log_cache.entries[j].size_bytes
          /\ log_cache.entries[j].size_bytes < last.size_bytes

\* C19: invalidate(k) on a cached key removes exactly that entry, lowers
\* current_bytes by its recorded size and returns true; on an absent key it
\* returns false and leaves the cache as it was; and a key that is absent is
\* present again only after an insert of that key, so get(k) misses until then.
C19_InvalidateRemovesAndRefunds ==
    [][ /\ last'.op = "invalidate" =>
              LET k == last'.request_id IN
              IF k \in DOMAIN log_cache.entries
              THEN /\ last'.removed
                   /\ log_cache'.entries = MapRemove(log_cache.entries, k)
                   /\ log_cache'.current_bytes =
                          log_cache.current_bytes - log_cache.entries[k].size_bytes
                   /\ LogCache_get_value(log_cache', k) = None
              ELSE /\ ~ last'.removed
                   /\ log_cache'.entries = log_cache.entries
                   /\ log_cache'.current_bytes = log_cache.current_bytes
        /\ \A k \in TestKeys :
              (k \notin DOMAIN log_cache.entries /\ k \in DOMAIN log_cache'.entries)
                  => (last'.op = "insert" /\ last'.request_id = k)
        /\ (last'.op = "get" /\ last'.request_id \notin DOMAIN log_cache.entries)
              => ~ last'.hit
      ]_cacheVars

\* invalidate(k) has returned true on a cache that held k and another entry:
\* the other entry is left and current_bytes is its size.
C19_Witness ==
    /\ last.op = "invalidate" /\ last.removed
    /\ last.request_id \notin DOMAIN log_cache.entries
    /\ Cardinality(DOMAIN log_cache.entries) = 1
    /\ log_cache.current_bytes > 0
    /\ log_cache.current_bytes = SizeOfKeys(log_cache.entries, DOMAIN log_cache.entries)

\* ------------------------------------------------------------------ properties of the handlers
\* The ids of the elements of a list of rows or of response entries.
IdsIn(list) == {list[i].id : i \in 1..Len(list)}

\* The number of rows the store holds for a request, over the five trace tables.
RowCount(d, request_id) ==
    Cardinality(RowsOf(d.requests, request_id)) + Cardinality(RowsOf(d.events, request_id))
        + Cardinality(RowsOf(d.mod_calls, request_id))
        + Cardinality(RowsOf(d.mod_logs, request_id))
        + Cardinality(RowsOf(d.actions, request_id))

\* A response whose trace attributes and children all come from one committed
\* ingest of its id: the events and mod calls are that commit's rows, the mod
\* logs and actions are as many as that commit wrote, and the attributes the
\* upsert writes are that commit's.
FromOneCommit(log) ==
    \E c \in commits :
        /\ c.request_id = log.request_id
        /\ IdsIn(log.events) = IdsOf(c.events)
        /\ IdsIn(log.mod_calls) = IdsOf(c.mod_calls)
        /\ Len(log.mod_logs) = Cardinality(c.mod_logs)
        /\ Len(log.actions) = Cardinality(c.actions)
        /\ log.model_id = c.row.model
        /\ log.user_prompt = c.row.user_prompt
        /\ log.final_text = c.row.final_text
        /\ log.finished_ts = c.row.completed_at

\* A response that shows the version of the trace the store holds now: the
\* same events and mod calls, as many mod logs and actions, the same attributes
\* written by the upsert.
ShowsStoredVersion(log, d) ==
    LET request_id == log.request_id
        row == fetch_request_row(d, request_id)
    IN /\ IsSome(row)
       /\ IdsIn(log.events) = IdsOf(RowsOf(d.events, request_id))
       /\ IdsIn(log.mod_calls) = IdsOf(RowsOf(d.mod_calls, request_id))
       /\ Len(log.mod_logs) = Cardinality(RowsOf(d.mod_logs, request_id))
       /\ Len(log.actions) = Cardinality(RowsOf(d.actions, request_id))
       /\ log.model_id = Unwrap(row).model
       /\ log.user_prompt = Unwrap(row).user_prompt
       /\ log.final_text = Unwrap(row).final_text
       /\ log.finished_ts = Unwrap(row).completed_at

AllIdle == \A p \in Workers : tasks[p].op = "idle"

\* C2: a store read of a trace that runs concurrently with a re-ingest of it
\* assembles a response whose row, events, mod calls, mod logs and actions all
\* come from one committed ingest, and no response mixing two ingests is in the
\* cache.
C2_ReadNeverMixesIngests ==
    /\ \A p \in Workers :
          (tasks[p].op = "get_log" /\ tasks[p].pc = "fetch_discussions")
              => FromOneCommit(Assembled(p))
    /\ \A k \in DOMAIN log_cache.entries : FromOneCommit(log_cache.entries[k].value)

\* C3: when ingest_payload returns 201 for X and no other request ran since the
\* ingest arrived, X is cached (the response being one the cache accepts) and
\* the cached response equals, field for field, a response fetch_log_response
\* assembles from the store at that moment.
C3_WriteThroughEqualsStoreFetch ==
    [][ \A p \in Workers :
          (/\ tasks[p].op = "ingest" /\ tasks[p].pc = "respond" /\ tasks[p].alone
           /\ tasks'[p].op = "idle"
           /\ reply'.status = 201)
          => LET request_id == tasks[p].request_id
                 cached == LogCache_get_value(log_cache', request_id)
             IN \/ \E r \in fetch_log_response(db', request_id) :
                       TooLarge(LogResponse_memory_size(r), log_cache.max_bytes)
                \/ /\ IsSome(cached)
                   /\ Unwrap(cached) \in fetch_log_response(db', request_id)
      ]_vars

\* C4: whenever every request has completed, the cache holds for each id either
\* no entry or an entry that shows the version the store holds; no entry of an
\* earlier commit or an earlier store read remains.
C4_QuiescentCacheMatchesStore ==
    AllIdle =>
        \A k \in DOMAIN log_cache.entries :
            ShowsStoredVersion(log_cache.entries[k].value, db)

\* A mod call of the payload refers to no event: its event_sequence_order is
\* negative or not below the number of events.
BadEventReference(payload) ==
    \E i \in 1..Len(payload.mod_calls) :
        \/ payload.mod_calls[i].event_sequence_order < 0
        \/ payload.mod_calls[i].event_sequence_order >= Len(payload.events)

\* C5: an ingest whose mod calls contain an event_sequence_order that is
\* negative or >= events.len() never commits and fails; when it is rejected
\* (400) the request row and the events had been written in its transaction,
\* and the step that rejects it leaves the store as it was, so an id that had
\* no rows has none afterwards.
C5_BadEventReferencePersistsNothing ==
    [][ \A p \in Workers :
          (/\ tasks[p].op = "ingest"
           /\ BadEventReference(Unwrap(tasks[p].payload))
           /\ tasks'[p].pc # tasks[p].pc)
          => /\ tasks'[p].pc # "commit"
             /\ tasks'[p].op = "idle" =>
                   /\ reply'.worker = p /\ reply'.status \in {400, 500}
                   /\ db' = db
                   /\ RowCount(db, tasks[p].request_id) = 0
                          => RowCount(db', tasks[p].request_id) = 0
                   /\ reply'.status = 400 =>
                          reply'.rolled_back = 1 + Len(Unwrap(tasks[p].payload).events)
      ]_vars

\* An ingest with an event_sequence_order that refers to no event was rejected
\* after its transaction had written the request row and one event, and the
\* store holds no row of the id.
C5_Witness ==
    /\ reply.op = "ingest" /\ reply.status = 400 /\ reply.rolled_back = 2
    /\ RowCount(db, reply.request_id) = 0
    /\ seqs.events = FirstId + 1

\* The store shows the attributes and the children of a payload: each column
\* the upsert binds holds the payload's value, and each child table holds as
\* many rows of the id as the payload's array has entries.
ShowsPayload(d, payload) ==
    LET request == payload.request
        row == fetch_request_row(d, request.request_id)
    IN /\ IsSome(row)
       /\ Unwrap(row).completed_at = request.completed_at
       /\ Unwrap(row).model = request.model
       /\ Unwrap(row).user_api_key = request.user_api_key
       /\ Unwrap(row).max_tokens = request.max_tokens
       /\ Unwrap(row).temperature = request.temperature
       /\ Unwrap(row).user_prompt = request.user_prompt
       /\ Unwrap(row).active_mod_name = request.active_mod_name
       /\ Unwrap(row).final_token_ids = request.final_token_ids
       /\ Unwrap(row).final_text = request.final_text
       /\ Cardinality(RowsOf(d.events, request.request_id)) = Len(payload.events)
       /\ Cardinality(RowsOf(d.mod_calls, request.request_id)) = Len(payload.mod_calls)
       /\ Cardinality(RowsOf(d.mod_logs, request.request_id)) = Len(payload.mod_logs)
       /\ Cardinality(RowsOf(d.actions, request.request_id)) = Len(payload.actions)

\* No child row that d held for the id is in e.
NoRowLeft(d, e, request_id) ==
    /\ RowsOf(d.events, request_id) \cap e.events = {}
    /\ RowsOf(d.mod_calls, request_id) \cap e.mod_calls = {}
    /\ RowsOf(d.mod_logs, request_id) \cap e.mod_logs = {}
    /\ RowsOf(d.actions, request_id) \cap e.actions = {}

\* Task p commits a re-ingest in this step: the id has a committed row.
CommitsReingest(p) ==
    /\ tasks[p].op = "ingest" /\ tasks[p].pc = "commit" /\ tasks'[p].pc = "respond"
    /\ RowsOf(db.requests, tasks[p].request_id) # {}

\* C6 as claimed: when a re-ingest of X with payload P2 commits, the store shows
\* exactly P2 for X: every attribute P2 supplies, its creation timestamp
\* included, is the stored value, the child counts are the lengths of P2's
\* arrays, and no row of the earlier ingest is left.
C6_ReingestShowsSecondPayloadWithCreatedAt ==
    [][ \A p \in Workers :
          CommitsReingest(p) =>
            LET payload == Unwrap(tasks[p].payload)
                row == Unwrap(fetch_request_row(db', tasks[p].request_id))
            IN /\ ShowsPayload(db', payload)
               /\ NoRowLeft(db, db', tasks[p].request_id)
               /\ IsSome(payload.request.created_at)
                      => row.created_at = Unwrap(payload.request.created_at)
      ]_vars

\* C6 as amended: when a re-ingest of X with payload P2 commits, every attribute
\* P2 supplies other than the creation timestamp is the stored value, the
\* creation timestamp stays the one stored before, the child counts are the
\* lengths of P2's arrays, and no row of the earlier ingest is left.
C6_ReingestShowsSecondPayloadKeepsCreatedAt ==
    [][ \A p \in Workers :
          CommitsReingest(p) =>
            LET payload == Unwrap(tasks[p].payload)
                old == Unwrap(fetch_request_row(db, tasks[p].request_id))
                row == Unwrap(fetch_request_row(db', tasks[p].request_id))
            IN /\ ShowsPayload(db', payload)
               /\ NoRowLeft(db, db', tasks[p].request_id)
               /\ row.created_at = old.created_at
      ]_vars

\* The payload "second" was committed over the payload "first" of the same id:
\* the row shows the second model and still the first creation timestamp, and
\* the children are the second payload's one event, one mod call and one action.
C6_Witness ==
    \E p \in Workers :
        /\ tasks[p].op = "ingest" /\ tasks[p].pc = "respond"
        /\ Unwrap(tasks[p].payload) = Payload(tasks[p].request_id, "second")
        /\ Cardinality(commits) = 2
        /\ LET row == Unwrap(fetch_request_row(db, tasks[p].request_id))
           IN /\ row.model = Some("other-model")
              /\ row.created_at = 9
        /\ Cardinality(RowsOf(db.events, tasks[p].request_id)) = 1
        /\ Cardinality(RowsOf(db.mod_logs, tasks[p].request_id)) = 0
        /\ Cardinality(RowsOf(db.actions, tasks[p].request_id)) = 1

\* C9: when the version of X the store holds is one the cache rejects as too
\* large, a get_log(X) that arrives while no other request runs and is granted
\* returns that stored version, not an older one that is still cached.
C9_OversizedReingestNeverServesOldVersion ==
    [][ (/\ AllIdle
         /\ started' = started + 1
         /\ reply'.op = "get_log" /\ reply'.status = 200
         /\ reply' # reply
         /\ \E r \in fetch_log_response(db, reply'.request_id) :
                TooLarge(LogResponse_memory_size(r), log_cache.max_bytes))
        => ShowsStoredVersion(Unwrap(reply'.body), db)
      ]_vars

\* ------------------------------------------------------------------ properties of the live updates
\* The step in which the send loop of subscriber s takes the next notification
\* of the channel.
TakesNotification(s) ==
    /\ subs[s].open /\ subs'[s].open
    /\ Recv(log_events, subs[s].next).kind = "ok"
    /\ subs'[s].next = subs[s].next + 1

\* C11: the notification of a trace owned by key K is written as new_log to
\* every administrator that takes it and to every non-administrator scoped to
\* K that takes it, and is not written to a non-administrator with any other
\* scope.
C11_NewLogGoesToAdminsAndOwnerScope ==
    [][\A s \in Subscribers :
          TakesNotification(s) =>
              LET e == log_events[subs[s].next + 1]
                  written == /\ sent'.type = "new_log"
                             /\ sent'.to = s
                             /\ sent'.index = subs[s].next + 1
              IN /\ subs[s].is_admin => written
                 /\ (~ subs[s].is_admin /\ IsSome(e.user_api_key)) =>
                        (written <=> subs[s].allowed_api_key = e.user_api_key)
                 /\ ~ written => sent'.type = "none"]_vars

\* A user scoped to K1 has just been written the notification of a trace of K1
\* which a connected user scoped to K2 has passed.
C11_Witness ==
    \E a, b \in Subscribers :
        /\ subs[a].open /\ ~ subs[a].is_admin /\ subs[a].allowed_api_key = Some("K1")
        /\ subs[b].open /\ ~ subs[b].is_admin /\ subs[b].allowed_api_key = Some("K2")
        /\ sent.type = "new_log" /\ sent.to = a /\ sent.index = subs[a].next
        /\ subs[b].next = subs[a].next
        /\ log_events[sent.index].user_api_key = Some("K1")

\* C12: a new_log written to a non-administrator carries user_api_key null; the
\* one written to an administrator carries the notification's user_api_key.
C12_OnlyAdminsReceiveOwningKey ==
    [][\A s \in Subscribers :
          (TakesNotification(s) /\ sent'.type = "new_log") =>
              LET e == log_events[subs[s].next + 1]
                  data == Unwrap(sent'.data)
              IN /\ data.request_id = e.request_id
                 /\ data.user_api_key = IF subs[s].is_admin THEN e.user_api_key ELSE None]_vars

\* The owner of a trace, not an administrator, has been written its new_log with
\* the key nulled, and an administrator the same notification with the key.
C12_Witness ==
    \E a, b \in Subscribers :
        /\ subs[a].open /\ ~ subs[a].is_admin
        /\ subs[b].open /\ subs[b].is_admin /\ subs[b].next = subs[a].next
        /\ sent.type = "new_log" /\ sent.to = a /\ sent.index = subs[a].next
        /\ Unwrap(sent.data).user_api_key = None
        /\ IsSome(log_events[sent.index].user_api_key)
        /\ event_data(TRUE, log_events[sent.index]).user_api_key = Some("K1")

\* C13: a connection that takes its next turn after more notifications than
\* the channel retains have gone unreceived is written one lagged message whose
\* missed is the number of unreceived notifications no longer retained, and its
\* cursor stands at the oldest retained one; every other turn takes the
\* notification at the cursor, so the retained ones follow in publish order.
C13_LaggedCountsDroppedThenRetainedInOrder ==
    [][\A s \in Subscribers :
          (subs[s].open /\ subs'[s].open /\ subs'[s].next # subs[s].next) =>
              LET tail == Len(log_events)
                  dropped == {i \in 1..tail : i > subs[s].next
                                              /\ tail - i >= SSE_CHANNEL_CAPACITY}
              IN IF dropped # {}
                 THEN /\ sent'.type = "lagged" /\ sent'.to = s
                      /\ sent'.missed = Cardinality(dropped)
                      /\ \A i \in 1..tail : i > subs'[s].next <=> (i > subs[s].next
                                                                  /\ i \notin dropped)
                      /\ Recv(log_events, subs'[s].next).kind = "ok"
                 ELSE /\ sent'.type = "new_log" /\ sent'.to = s
                      /\ sent'.index = subs[s].next + 1
                      /\ subs'[s].next = subs[s].next + 1
                      /\ Unwrap(sent'.data).total_steps
                             = log_events[subs[s].next + 1].total_steps]_vars

\* A connection that received nothing while 258 notifications were published has
\* just been written lagged with missed 2, and its cursor stands before the
\* third notification.
C13_Witness ==
    /\ Len(log_events) = SSE_CHANNEL_CAPACITY + 2
    /\ subs["s1"].open /\ subs["s1"].next = 2
    /\ sent.type = "lagged" /\ sent.missed = 2 /\ sent.to = "s1"

\* C14: an ingest that has committed can always take its last step, whoever is
\* or is not connected and however far behind the connections are, and it goes
\* on to reply 201.
C14_CommittedIngestReplies201 ==
    \A p \in Workers :
        /\ [](tasks[p].op = "ingest" /\ tasks[p].pc = "respond" => ENABLED IngestRespond(p))
        /\ (tasks[p].op = "ingest" /\ tasks[p].pc = "respond")
               ~> (reply.op = "ingest" /\ reply.worker = p /\ reply.status = 201)

\* An ingest has replied 201 and its notification is in the channel while a
\* connection that is open has not taken it.
C14_Witness ==
    /\ reply.op = "ingest" /\ reply.status = 201
    /\ log_events # <<>>
    /\ \A p \in Workers : tasks[p].op = "idle"
    /\ \E s \in Subscribers : subs[s].open /\ subs[s].next < Len(log_events)

\* ------------------------------------------------------------------ properties of the handlers, continued
\* C15: an ingest in which a mod log or an action has a mod_call_sequence that
\* is negative or >= mod_calls.len() never commits; it is rejected with 400 by
\* a step that rolls back everything its transaction wrote and leaves the
\* store, the cache and the channel as they were.
C15_BadModCallReferencePersistsNothing ==
    [][ \A p \in Workers :
          (/\ tasks[p].op = "ingest"
           /\ LET payload == Unwrap(tasks[p].payload)
                  unresolved(list) ==
                      \E i \in 1..Len(list) :
                          \/ list[i].mod_call_sequence < 0
                          \/ list[i].mod_call_sequence >= Len(payload.mod_calls)
              IN unresolved(payload.mod_logs) \/ unresolved(payload.actions)
           /\ tasks'[p].pc # tasks[p].pc)
          => /\ tasks'[p].pc # "commit"
             /\ tasks'[p].op = "idle" =>
                   /\ reply'.worker = p /\ reply'.status = 400
                   /\ db' = db /\ log_cache' = log_cache /\ log_events' = log_events
                   /\ commits' = commits
                   /\ reply'.rolled_back >= 1 + Len(Unwrap(tasks[p].payload).events)
                                              + Len(Unwrap(tasks[p].payload).mod_calls)
      ]_vars

\* A re-ingest whose action refers to no mod call was rejected after its
\* transaction had written the request row, two events, a mod call and a mod
\* log, and the store shows the trace as the earlier ingest left it.
C15_Witness ==
    /\ reply.op = "ingest" /\ reply.status = 400 /\ reply.rolled_back = 5
    /\ \A p \in Workers : tasks[p].op = "idle"
    /\ Cardinality(db.requests) = 1
    /\ \A r \in db.requests : r.model = Some("other-model")
    /\ Cardinality(db.events) = 1 /\ Cardinality(db.mod_calls) = 1
    /\ db.mod_logs = {} /\ Cardinality(db.actions) = 1

\* C16: when the last committed ingest of a trace had empty events, mod_calls,
\* mod_logs and actions, so that the store holds the row and no child of it, a
\* get_log that runs while no other request runs and replies 200, from the
\* cache or from the store, returns no event, step, mod call, mod log or action.
C16_ReadAfterEmptyReingestHasNoChildren ==
    [][ \A p \in Workers :
          (/\ reply'.op = "get_log" /\ reply'.worker = p /\ reply'.status = 200
           /\ tasks'[p].op = "idle"
           /\ \/ tasks[p].op = "get_log" /\ tasks[p].alone
              \/ tasks[p].op = "idle" /\ started' = started + 1
           /\ \A q \in Workers \ {p} : tasks[q].op = "idle"
           /\ IsSome(fetch_request_row(db, reply'.request_id))
           /\ RowCount(db, reply'.request_id) = 1)
          => LET log == Unwrap(reply'.body)
             IN /\ log.events = <<>> /\ log.steps = <<>>
                /\ log.mod_calls = <<>> /\ log.mod_logs = <<>> /\ log.actions = <<>>
      ]_vars

\* C17: while no request runs, a trace that is not public in the store is
\* served by get_log from the cache only to a caller the store's row entitles:
\* an administrator, or an authenticated caller whose allowed_api_key is the
\* row's user_api_key. (get_log serves a cached response whenever check_access
\* of that response is Ok.)
C17_CacheGrantsOnlyWhatTheStoreGrants ==
    AllIdle =>
        \A request_id \in RequestIds, caller \in Callers :
            LET cached == LogCache_get_value(log_cache, request_id)
                row == fetch_request_row(db, request_id)
            IN (/\ IsSome(cached) /\ IsSome(row)
                /\ ~ Unwrap(row).is_public
                /\ check_access(Unwrap(cached), caller) = 0)
               => /\ IsSome(caller)
                  /\ \/ Unwrap(caller).is_admin
                     \/ /\ IsSome(Unwrap(caller).allowed_api_key)
                        /\ Unwrap(caller).allowed_api_key = Unwrap(row).user_api_key

\* C20: in every interleaving of concurrent insert, get, invalidate and clear
\* calls, whenever no thread holds the lock of the map for writing,
\* current_bytes is the sum of the size_bytes recorded in the entries; and when
\* stats loads current_bytes, the entries.len() it read is still the size of
\* the map, so that both numbers of the snapshot describe one state of the map.
C20_BytesMatchEntriesOutsideWriteLock ==
    /\ lock.writer = "" =>
           log_cache.current_bytes = SizeOfKeys(log_cache.entries, DOMAIN log_cache.entries)
    /\ \A t \in Threads :
           (threads[t].op = "stats" /\ threads[t].pc = "load") =>
               /\ lock.writer = ""
               /\ threads[t].entry_count = Cardinality(DOMAIN log_cache.entries)

\* One thread is inside stats, having read a length of 2, while the other has
\* started an insert that waits for the lock.
C20_Witness ==
    \E t, u \in Threads :
        /\ threads[t].op = "stats" /\ threads[t].pc = "load" /\ threads[t].entry_count = 2
        /\ threads[u].op = "insert" /\ threads[u].pc = "lock"
        /\ log_cache.current_bytes > 0

\* ------------------------------------------------------------------ bulk statements of the writers
\* Cap on the number of full chunks of a submitted list.
MaxChunks == 3

\* Lengths of submitted lists around the chunk boundaries of a writer.
BulkLengths(table) ==
    LET size == BulkWriters[table].batch_size
    IN {k * size + d : k \in 0..MaxChunks, d \in {0, 1, size - 1}}

\* A writer is called with a list of len rows (replace_events and the others
\* before their loop).
BulkBegin ==
    /\ stmt.index = Len(chunks(stmt.len, BulkWriters[stmt.table].batch_size))
    /\ \E table \in DOMAIN BulkWriters : \E len \in BulkLengths(table) :
           stmt' = [index |-> 0, len |-> len, params |-> 0, rows |-> 0, table |-> table]
    /\ UNCHANGED <<log_cache, last, threads, lock, db, seqs, tasks, log_events, commits,
                   started, reply, subs, sent, ttl_cache, clock, ttl_last, warm>>

\* One turn of the loop over the chunks: the statement built for the next
\* chunk, with one group of placeholders and binds per row.
BulkNextChunk ==
    LET writer == BulkWriters[stmt.table]
        batches == chunks(stmt.len, writer.batch_size)
    IN /\ stmt.index < Len(batches)
       /\ stmt' = [stmt EXCEPT !.index = @ + 1,
                                !.rows = batches[stmt.index + 1],
                                !.params = batches[stmt.index + 1] * writer.row_params]
       /\ UNCHANGED <<log_cache, last, threads, lock, db, seqs, tasks, log_events, commits,
                      started, reply, subs, sent, ttl_cache, clock, ttl_last, warm>>

NextChunks == BulkBegin \/ BulkNextChunk

SpecChunks == InitSys /\ [][NextChunks]_vars

\* ------------------------------------------------------------------ the writers, statement by statement
\* Vec::extend: the ids of a chunk appended to those of the chunks before.
ExtendInFront(all_ids, batch_ids) == batch_ids \o all_ids
extend(all_ids, batch_ids) == all_ids \o batch_ids

\* 2. replace_events, one statement per step: the DELETE, which returns at once
\* for an empty list, then for each chunk its INSERT ... RETURNING id, whose ids
\* extend all_event_ids.
IngestReplaceEvents(p) ==
    LET events == Unwrap(tasks[p].payload).events
        done == Len(tasks[p].event_ids)
        n == chunks(Len(events), EVENTS_BATCH_SIZE)[done \div EVENTS_BATCH_SIZE + 1]
        ids == ReturnedIds(seqs.events, n)
    IN /\ tasks[p].op = "ingest" /\ tasks[p].pc = "replace_events"
       /\ \/ /\ "events" \notin tasks[p].tx.deleted
             /\ tasks' = [tasks EXCEPT
                    ![p].tx.deleted = @ \cup {"events"},
                    ![p].pc = IF events = <<>> THEN "replace_mod_calls" ELSE @]
             /\ UNCHANGED seqs
          \/ /\ "events" \in tasks[p].tx.deleted
             /\ \E now \in NowChoices :
                 tasks' = [tasks EXCEPT
                    ![p].tx.events =
                        @ \cup EventRows(tasks[p].request_id,
                                         SubSeq(events, done + 1, done + n), ids, now),
                    ![p].event_ids = extend(@, ids),
                    ![p].pc = IF done + n = Len(events) THEN "replace_mod_calls" ELSE @]
             /\ seqs' = [seqs EXCEPT !.events = @ + n]
       /\ UNCHANGED <<log_cache, last, threads, lock, subs, sent, db, log_events, commits,
                      started, reply, auxVars>>

\* 3. to 5. replace_mod_calls, replace_mod_logs and replace_actions with the ids
\* replace_events returned.
IngestReplaceRest(p) ==
    /\ tasks[p].op = "ingest" /\ tasks[p].pc = "replace_mod_calls"
    /\ \E now \in NowChoices :
        LET payload == Unwrap(tasks[p].payload)
            request_id == tasks[p].request_id
            w == replace_actions(
                     replace_mod_logs(
                         replace_mod_calls(
                             [event_ids |-> tasks[p].event_ids, mod_call_ids |-> <<>>,
                              seqs |-> seqs, status |-> 0, tx |-> tasks[p].tx],
                             request_id, payload.mod_calls, now),
                         request_id, payload.mod_logs, now),
                     request_id, payload.actions, now)
        IN /\ seqs' = w.seqs
           /\ IF w.status = 0
              THEN /\ tasks' = [tasks EXCEPT ![p].tx = w.tx,
                                             ![p].mod_call_ids = w.mod_call_ids,
                                             ![p].pc = "commit"]
                   /\ UNCHANGED <<log_cache, last, threads, lock, subs, sent, db,
                                  log_events, commits, started, reply, auxVars>>
              ELSE /\ tasks' = Done(p)
                   /\ reply' = [Reply(p, w.status, None) EXCEPT
                                   !.rolled_back = TxRows(w.tx)]
                   /\ UNCHANGED <<log_cache, last, threads, lock, subs, sent, db,
                                  log_events, commits, started, auxVars>>

\* The bulk ingests (task, id, payload): one task submits the long trace, the
\* other a short one under the same or under another id. MaxBulkRequests caps
\* their number.
BulkArrivals == {<<"w1", "t1", "long">>, <<"w2", "t1", "first">>, <<"w2", "t2", "first">>}
MaxBulkRequests == 2

NextBulk ==
    \/ \E a \in BulkArrivals :
           started < MaxBulkRequests /\ BeginIngest(a[1], a[2], a[3])
    \/ \E p \in Workers :
        \/ IngestPersistRequest(p)
        \/ IngestReplaceEvents(p)
        \/ IngestReplaceRest(p)
        \/ IngestCommit(p)
        \/ IngestRespond(p)
        \/ IngestStoreError(p)

\* Ingests of lists longer than a chunk, their writers run statement by statement.
SpecBulk == InitSys /\ [][NextBulk]_vars

\* ------------------------------------------------------------------ warm-up and the batch assembler
\* The ids of the warm-up's store, in the text order ORDER BY request_id sorts by.
WarmIds == <<"t1", "t2">>
IdRank(request_id) == CHOOSE n \in 1..Len(WarmIds) : WarmIds[n] = request_id

\* The number of traces run asks warm_cache for.
WARM_LIMIT == 50

\* SELECT request_id FROM requests ORDER BY created_at DESC LIMIT $1: the
\* possible result lists.
recent_request_ids(d, limit) ==
    LET ascending == OrderBy(d.requests, [r \in d.requests |-> <<r.created_at, 0>>])
    IN {[i \in 1..(IF Len(o) < limit THEN Len(o) ELSE limit) |->
            o[Len(o) + 1 - i].request_id] : o \in ascending}

\* Queries fetch_log_responses_batch sends: none for an empty id list, else one
\* each for requests, events, mod_calls, mod_logs, actions and discussions.
\* The mutant sends them once per id.
BatchQueries == 6
QueriesPerId(request_ids) == BatchQueries * Cardinality(request_ids)
batch_queries(request_ids) == IF request_ids = {} THEN 0 ELSE BatchQueries

\* fetch_log_responses_batch on one state of the store: every map of responses
\* it can return. Each query selects the rows of all the ids, ordered by
\* request_id first; each row is pushed to the response of its request_id if
\* the requests query has found that id.
fetch_log_responses_batch(d, request_ids) ==
    LET request_rows == {r \in d.requests : r.request_id \in request_ids}
        events == {r \in d.events : r.request_id \in request_ids}
        mod_calls == {r \in d.mod_calls : r.request_id \in request_ids}
        mod_logs == {r \in d.mod_logs : r.request_id \in request_ids}
        actions == {r \in d.actions : r.request_id \in request_ids}
        pushed(rows, id) == SelectSeq(rows, LAMBDA r : r.request_id = id)
        response(row, event_rows, mod_call_rows, mod_log_rows, action_rows) ==
            LET sampled == SelectSeq(event_rows, LAMBDA r : r.event_type = "Sampled") IN
            [actions |->
                [i \in 1..Len(action_rows) |->
                    LET a == action_rows[i]
                        details == IF IsSome(a.details) THEN Unwrap(a.details) ELSE {}
                        with_count ==
                            IF IsSome(a.token_count)
                               /\ ~ \E kv \in details : kv[1] = "token_count"
                            THEN details \cup {<<"token_count", Unwrap(a.token_count)>>}
                            ELSE details
                        with_steps ==
                            IF IsSome(a.backtrack_steps)
                               /\ ~ \E kv \in with_count : kv[1] = "backtrack_steps"
                            THEN with_count
                                     \cup {<<"backtrack_steps", Unwrap(a.backtrack_steps)>>}
                            ELSE with_count
                    IN [action_id |-> a.id, action_type |-> a.action_type,
                        created_at |-> a.created_at, mod_id |-> Some(a.mod_call_id),
                        payload |-> with_steps]],
             active_mod |->
                IF IsSome(row.active_mod_name)
                THEN Some([id |-> 0, name |-> row.active_mod_name]) ELSE None,
             created_ts |-> row.created_at,
             discussion_count |->
                Cardinality({r \in d.discussions : r.request_id = row.request_id}),
             events |->
                [i \in 1..Len(event_rows) |->
                    LET e == event_rows[i] IN
                    [created_at |-> e.created_at, event_type |-> e.event_type,
                     forced |-> e.forced, id |-> e.id, prompt_length |-> e.prompt_length,
                     sampled_token |-> e.sampled_token,
                     sequence_order |-> e.sequence_order, step |-> e.step,
                     token_text |-> e.token_text]],
             favorited_by |-> row.favorited_by,
             final_text |-> row.final_text,
             final_tokens |-> row.final_token_ids,
             finished_ts |-> row.completed_at,
             is_public |-> row.is_public,
             max_steps |-> row.max_tokens,
             mod_calls |->
                [i \in 1..Len(mod_call_rows) |->
                    LET c == mod_call_rows[i] IN
                    [created_at |-> c.created_at, event_id |-> c.event_id,
                     event_type |-> c.event_type,
                     exception_occurred |-> c.exception_occurred, id |-> c.id,
                     mod_name |-> c.mod_name, step |-> c.step]],
             mod_logs |->
                [i \in 1..Len(mod_log_rows) |->
                    LET l == mod_log_rows[i] IN
                    [created_at |-> l.created_at, id |-> l.id, log_level |-> l.log_level,
                     log_message |-> l.log_message, mod_call_id |-> l.mod_call_id,
                     mod_name |-> l.mod_name]],
             model_id |-> row.model,
             public_token |-> row.public_token,
             request_id |-> row.request_id,
             steps |->
                [i \in 1..Len(sampled) |->
                    [created_at |-> sampled[i].created_at,
                     forced |-> IF IsSome(sampled[i].forced)
                                THEN Unwrap(sampled[i].forced) ELSE FALSE,
                     step_index |-> sampled[i].step, token |-> sampled[i].sampled_token,
                     token_text |-> sampled[i].token_text]],
             tags |-> row.tags,
             user_api_key |-> row.user_api_key,
             user_prompt |-> row.user_prompt]
    IN IF request_ids = {} THEN {<<>>}
       ELSE {[id \in {r.request_id : r \in request_rows} |->
                 response(CHOOSE r \in request_rows : r.request_id = id,
                          pushed(e, id), pushed(c, id), pushed(l, id), pushed(a, id))] :
               e \in OrderBy(events,
                             [r \in events |-> <<IdRank(r.request_id), r.sequence_order>>]),
               c \in OrderBy(mod_calls,
                             [r \in mod_calls |-> <<IdRank(r.request_id), r.created_at>>]),
               l \in OrderBy(mod_logs,
                             [r \in mod_logs |-> <<IdRank(r.request_id), r.created_at>>]),
               a \in OrderBy(actions,
                             [r \in actions |->
                                 <<IdRank(r.request_id), r.created_at, r.action_order>>])}

\* warm_cache on an error of one of its two fetches: a warning, and it returns.
\* The mutant hands the error to run, which ends with it.
WarmErrorEndsRun(w, step) == [w EXCEPT !.failed = step, !.pc = "exit"]
warm_error(w, step) == [w EXCEPT !.failed = step, !.pc = "done"]

\* warm_cache, one await or one turn of its insert loop per step: the query for
\* the most recent ids, the batch fetch, then cache.insert for each entry of the
\* returned HashMap in the order its iterator yields them.
WarmCache ==
    /\ \/ /\ warm.pc = "ids"
          /\ \/ warm' = warm_error(warm, "ids")
             \/ \E ids \in recent_request_ids(db, WARM_LIMIT) :
                    warm' = [warm EXCEPT !.request_ids = ids, !.pc = "batch"]
          /\ UNCHANGED log_cache
       \/ /\ warm.pc = "batch"
          /\ LET request_ids == {warm.request_ids[i] : i \in 1..Len(warm.request_ids)}
             IN \/ request_ids # {} /\ warm' = warm_error(warm, "batch")
                \/ \E responses \in fetch_log_responses_batch(db, request_ids) :
                       warm' = [warm EXCEPT !.responses = responses,
                                            !.queries = batch_queries(request_ids),
                                            !.pc = "insert"]
          /\ UNCHANGED log_cache
       \/ /\ warm.pc = "insert"
          /\ IF DOMAIN warm.responses = {}
             THEN /\ warm' = [warm EXCEPT !.pc = "done"]
                  /\ UNCHANGED log_cache
             ELSE \E id \in DOMAIN warm.responses :
                      /\ log_cache' = LogCache_insert(log_cache, id, warm.responses[id])
                      /\ warm' = [warm EXCEPT !.responses = MapRemove(@, id)]
    /\ UNCHANGED <<last, threads, lock, db, seqs, tasks, log_events, commits, started,
                   reply, subs, sent, stmt, ttl_cache, clock, ttl_last>>

\* The store after one more committed ingest.
Stored(s, request_id, kind) ==
    LET payload == Payload(request_id, kind)
        row == persist_request(s.db.requests, payload.request, 50)
        w == replace_children([NoTx EXCEPT !.row = Some(row)], s.seqs, payload, 50)
    IN [db |-> Commit(s.db, request_id, w.tx), seqs |-> w.seqs]

\* The stores a server may start on: empty, one trace, two traces, with or
\* without discussions on the first.
StartStores ==
    LET empty == [db |-> EmptyDb, seqs |-> InitSeqs]
        kinds == {"first", "second", "tied"}
        one == {Stored(empty, "t1", k) : k \in kinds}
        two == {Stored(s, "t2", k) : s \in one, k \in kinds}
        discussed == {[s EXCEPT !.db.discussions = {[id |-> 1, request_id |-> "t1"],
                                                    [id |-> 2, request_id |-> "t1"]}]
                          : s \in one \cup two}
    IN {empty} \cup one \cup two \cup discussed

\* cache_max_bytes of the configurations the server starts with.
WarmMaxBytes == {SysMaxBytes, 3000}

\* run after AppState::with_cache_size: an empty cache over a store left by
\* earlier runs, warm_cache about to start.
InitWarm ==
    /\ \E s \in StartStores : db = s.db /\ seqs = s.seqs
    /\ \E m \in WarmMaxBytes : log_cache = LogCache_with_max_bytes(m)
    /\ warm = [failed |-> "", pc |-> "ids", queries |-> 0, request_ids |-> <<>>,
               responses |-> <<>>]
    /\ last = NoCall
    /\ tasks = [p \in Workers |-> IdleTask]
    /\ log_events = <<>>
    /\ commits = {}
    /\ started = 0
    /\ reply = NoReply
    /\ subs = [s \in Subscribers |-> NoSubscriber]
    /\ sent = NoMessage
    /\ threads = [t \in Threads |-> IdleThread]
    /\ lock = [readers |-> {}, writer |-> ""]
    /\ stmt = NoStatement
    /\ ttl_cache = TtlCache_new(MaxTtl)
    /\ clock = 0
    /\ ttl_last = NoTtlCall

\* Cap on the requests served after the warm-up.
MaxServed == 1

\* The server's start: warm_cache, then the router serves get_log.
NextWarm ==
    \/ WarmCache
    \/ /\ warm.pc = "done" /\ started < MaxServed
       /\ \E p \in Workers, i \in 1..Len(WarmIds) : BeginGetLog(p, WarmIds[i], Admin)
    \/ \E p \in Workers :
        \/ GetLogFetchRow(p)
        \/ GetLogFetchEvents(p)
        \/ GetLogFetchModCalls(p)
        \/ GetLogFetchModLogs(p)
        \/ GetLogFetchActions(p)
        \/ GetLogRespond(p)

SpecWarm == InitWarm /\ [][NextWarm]_vars

\* ------------------------------------------------------------------ properties of the bulk statements
\* C21: for each of the four bulk inserts the chunk size times the parameters
\* per row is at most 65535, and whatever the length of the submitted list, no
\* statement a writer builds holds more rows than the chunk size or binds more
\* than 65535 parameters.
C21_StatementsStayWithinParameterLimit ==
    /\ \A table \in DOMAIN BulkWriters :
           BulkWriters[table].batch_size * BulkWriters[table].row_params
               <= MaxStatementParams
    /\ stmt.rows <= BulkWriters[stmt.table].batch_size
    /\ stmt.params = stmt.rows * BulkWriters[stmt.table].row_params
    /\ stmt.params <= MaxStatementParams

\* The second statement of a list of events one row longer than two chunks: a
\* full chunk of 4000 rows and 64000 parameters.
C21_Witness ==
    /\ stmt.table = "events" /\ stmt.len = 2 * EVENTS_BATCH_SIZE + 1
    /\ stmt.index = 2 /\ stmt.rows = EVENTS_BATCH_SIZE /\ stmt.params = 64000

\* ------------------------------------------------------------------ properties of the chunked writers
\* C22: when a statement of an ingest fails after earlier chunks of its events
\* were inserted, the error return leaves the tables as they were: the rows of
\* the earlier chunks and the deletions before them are undone with the whole
\* transaction, and no request ever has only the first chunks of a submitted
\* list among its committed events.
C22_FailedChunkRollsBackEarlierChunks ==
    [][/\ (\E p \in Workers :
              /\ tasks[p].op = "ingest" /\ tasks'[p].op = "idle"
              /\ reply'.worker = p /\ reply'.status \in {400, 500})
          => db' = db
       /\ \A a \in BulkArrivals :
              Cardinality(RowsOf(db'.events, a[2]))
                  \in {0} \cup {Len(Payload(b[2], b[3]).events) : b \in BulkArrivals}]_vars

\* The re-ingest of a stored trace with the long payload has failed after its
\* DELETE and its first chunk of 4000 events: the upserted row and the chunk
\* were rolled back and the two events of the stored version are still there.
C22_Witness ==
    /\ reply.op = "ingest" /\ reply.status = 500 /\ reply.worker = "w1"
    /\ reply.rolled_back = 1 + EVENTS_BATCH_SIZE
    /\ Cardinality(RowsOf(db.events, "t1")) = 2

\* C27: the ids replace_events has returned so far stand in submission order,
\* across chunk boundaries too: the i-th id is the id of the row stored for the
\* i-th submitted event, and every submitted event has its id once the writer
\* has returned. Mod call i is then stored with the id at position
\* event_sequence_order of that list, the id of the event submitted at that
\* position, whatever sequence_order the events carry.
C27_IdsFollowSubmissionOrder ==
    \A p \in Workers :
        tasks[p].op = "ingest" /\ tasks[p].pc \in {"replace_events", "replace_mod_calls", "commit"} =>
            LET payload == Unwrap(tasks[p].payload)
                ids == tasks[p].event_ids
                tx == tasks[p].tx
            IN /\ {<<r.id, r.sequence_order, r.event_type>> : r \in tx.events}
                    = {<<ids[i], payload.events[i].sequence_order,
                         payload.events[i].event_type>> : i \in 1..Len(ids)}
               /\ Cardinality(tx.events) = Len(ids)
               /\ tasks[p].pc # "replace_events" => Len(ids) = Len(payload.events)
               /\ tasks[p].pc = "commit" =>
                      {<<r.id, r.event_id>> : r \in tx.mod_calls}
                          = {<<tasks[p].mod_call_ids[i],
                               ids[payload.mod_calls[i].event_sequence_order + 1]>>
                                 : i \in 1..Len(payload.mod_calls)}

\* The long payload is ready to commit: its second chunk drew its id after
\* another ingest had drawn ids, so the ids are not consecutive across the
\* chunk boundary, and the mod call that names position 4000 is stored with the
\* id of the last event, whose sequence_order is 0.
C27_Witness ==
    \E p \in Workers :
        /\ tasks[p].op = "ingest" /\ tasks[p].pc = "commit"
        /\ Len(tasks[p].event_ids) = EVENTS_BATCH_SIZE + 1
        /\ tasks[p].event_ids[EVENTS_BATCH_SIZE + 1] > tasks[p].event_ids[EVENTS_BATCH_SIZE] + 1
        /\ \E c \in tasks[p].tx.mod_calls, e \in tasks[p].tx.events :
               /\ c.id = tasks[p].mod_call_ids[1]
               /\ c.event_id = tasks[p].event_ids[EVENTS_BATCH_SIZE + 1]
               /\ e.id = c.event_id /\ e.sequence_order = 0

\* ------------------------------------------------------------------ properties of the handlers: failures
\* C23: an ingest that returns an error (400 for a bad reference, 500 for a
\* failed statement) leaves the cache and the channel alone: every step that
\* changes the cache or sends a notification is the last step of an ingest that
\* has committed and replies 201, so the entry of a failed ingest's id is
\* neither inserted, replaced nor removed and no notification is sent for it.
C23_FailedIngestTouchesNeitherCacheNorChannel ==
    [][/\ \A p \in Workers :
              (/\ tasks[p].op = "ingest" /\ tasks'[p].op = "idle"
               /\ reply'.worker = p /\ reply'.status \in {400, 500})
              => /\ tasks[p].pc # "respond"
                 /\ log_cache' = log_cache /\ log_events' = log_events
       /\ (log_cache' # log_cache \/ log_events' # log_events)
              => \E p \in Workers :
                     /\ tasks[p].op = "ingest" /\ tasks[p].pc = "respond"
                     /\ tasks'[p].op = "idle"
                     /\ reply'.worker = p /\ reply'.status = 201]_vars

\* A stored and cached trace was re-ingested with a payload whose mod call
\* names no event: 400, and the cache still holds the entry of the first
\* ingest and the channel its one notification.
C23_Witness ==
    /\ reply.op = "ingest" /\ reply.status = 400 /\ reply.request_id = "t1"
    /\ "t1" \in DOMAIN log_cache.entries
    /\ Len(log_events) = 1
    /\ \A p \in Workers : tasks[p].op = "idle"

\* ------------------------------------------------------------------ properties of the warm-up
\* C24: warm_cache is best-effort. When the query for the most recent ids or
\* the batch fetch fails, warm_cache has returned to run, which goes on to
\* serve requests; requests are served only after warm_cache has returned; and
\* at every step of the warm-up and after it current_bytes is at most
\* max_bytes and equals the sum of the sizes of the entries.
C24_WarmUpIsBestEffort ==
    /\ warm.failed # "" => warm.pc = "done" /\ warm.responses = <<>>
    /\ warm.pc \in {"ids", "batch", "insert", "done"}
    /\ warm.pc # "done" => \A p \in Workers : tasks[p].op = "idle"
    /\ warm.pc \in {"ids", "batch"} => log_cache.entries = <<>>
    /\ log_cache.current_bytes <= log_cache.max_bytes
    /\ log_cache.current_bytes = SizeOfKeys(log_cache.entries, DOMAIN log_cache.entries)

\* The batch fetch failed on a store with two traces, the cache stayed empty,
\* and the server then answered a get_log from the store and cached the trace.
C24_Witness ==
    /\ warm.failed = "batch" /\ warm.pc = "done" /\ Len(warm.request_ids) = 2
    /\ reply.op = "get_log" /\ reply.status = 200
    /\ DOMAIN log_cache.entries = {reply.request_id}

\* The batch assembler and the single-trace assembler on one state of the
\* store: for every set of ids, the batch returns an entry for exactly the ids
\* of the set that the store holds, and the traces it can return for such an id
\* are the traces fetch_log_response can return for it.
BatchMatchesSingle ==
    \A S \in SUBSET {WarmIds[i] : i \in 1..Len(WarmIds)} :
        LET maps == fetch_log_responses_batch(db, S) IN
        /\ \A m \in maps : DOMAIN m = {id \in S : fetch_log_response(db, id) # {}}
        /\ \A id \in S :
               fetch_log_response(db, id) # {}
                   => {m[id] : m \in maps} = fetch_log_response(db, id)

\* C29 as stated: the batch agrees with the single-trace assembler, and the
\* number of queries a batch fetch has sent is the same for every id set.
C29_QueryCountIgnoresSetSize ==
    /\ warm.pc = "batch" => BatchMatchesSingle
    /\ warm.pc = "insert" => warm.queries = BatchQueries

\* C29: for every id of the requested set that the store holds, the batch
\* assembler returns the trace the single-trace assembler returns; a batch
\* fetch sends six queries for every non-empty id set, however many ids it
\* holds, and none for the empty set.
C29_BatchAgreesWithSingleFetch ==
    /\ warm.pc = "batch" => BatchMatchesSingle
    /\ warm.pc = "insert" =>
           warm.queries = (IF warm.request_ids = <<>> THEN 0 ELSE BatchQueries)

\* The batch fetch has returned two traces with six queries, the second with
\* two mod calls of equal created_at.
C29_Witness ==
    /\ warm.pc = "insert" /\ warm.queries = BatchQueries
    /\ DOMAIN warm.responses = {"t1", "t2"}
    /\ Len(warm.responses["t2"].mod_calls) = 2
    /\ warm.responses["t2"].mod_calls[1].created_at
           = warm.responses["t2"].mod_calls[2].created_at
    /\ warm.responses["t1"].discussion_count = 2

\* ------------------------------------------------------------------ TtlCache, call by call
\* Caps on the clock and on the number of TtlCache calls.
MaxClock == 3
MaxTtlCalls == 4

TtlKeys == {"k1", "k2"}
TtlValues == {"v1", "v2"}

\* One call has completed.
TtlCalled(op, key, value) ==
    [index |-> ttl_last.index + 1, key |-> key, now |-> clock, op |-> op, value |-> value]

\* TtlCache::get.
TtlGet(key) ==
    LET found == key \in DOMAIN ttl_cache.entries /\ Live(ttl_cache.entries[key], clock)
    IN /\ ttl_cache' = IF found THEN [ttl_cache EXCEPT !.hits = @ + 1]
                       ELSE [ttl_cache EXCEPT !.misses = @ + 1]
       /\ ttl_last' = TtlCalled("get", key,
                                IF found THEN Some(ttl_cache.entries[key].value) ELSE None)

\* TtlCache::insert_with_ttl; insert is the call with the cache's own ttl.
TtlInsertWithTtl(key, value, ttl) ==
    /\ ttl_cache' = [ttl_cache EXCEPT
           !.entries = MapInsert(@, key, [expires_at |-> clock + ttl, value |-> value])]
    /\ ttl_last' = TtlCalled("insert", key, None)

\* TtlCache::invalidate.
TtlInvalidate(key) ==
    /\ ttl_cache' = [ttl_cache EXCEPT !.entries = MapRemove(@, key)]
    /\ ttl_last' = TtlCalled("invalidate", key, None)

\* TtlCache::clear.
TtlClear ==
    /\ ttl_cache' = [ttl_cache EXCEPT !.entries = <<>>]
    /\ ttl_last' = TtlCalled("clear", "", None)

\* TtlCache::cleanup_expired.
TtlCleanupExpired ==
    /\ ttl_cache' = [ttl_cache EXCEPT
           !.entries = [k \in {j \in DOMAIN @ : Live(@[j], clock)} |-> @[k]]]
    /\ ttl_last' = TtlCalled("cleanup_expired", "", None)

\* Time passes between two calls.
Tick ==
    /\ clock < MaxClock
    /\ clock' = clock + 1
    /\ UNCHANGED <<ttl_cache, ttl_last>>

InitTtl ==
    /\ InitSys
    /\ \E ttl \in 1..MaxTtl : ttl_cache = TtlCache_new(ttl)

NextTtl ==
    /\ \/ Tick
       \/ /\ ttl_last.index < MaxTtlCalls
          /\ UNCHANGED clock
          /\ \/ \E key \in TtlKeys : TtlGet(key)
             \/ \E key \in TtlKeys, value \in TtlValues :
                    TtlInsertWithTtl(key, value, ttl_cache.ttl)
             \/ \E key \in TtlKeys, value \in TtlValues, ttl \in 0..MaxTtl :
                    TtlInsertWithTtl(key, value, ttl)
             \/ \E key \in TtlKeys : TtlInvalidate(key)
             \/ TtlClear
             \/ TtlCleanupExpired
    /\ UNCHANGED <<log_cache, last, threads, lock, db, seqs, tasks, log_events, commits,
                   started, reply, subs, sent, stmt, warm>>

SpecTtl == InitTtl /\ [][NextTtl]_vars

\* ------------------------------------------------------------------ properties of the TtlCache
\* C25: get returns the stored value exactly when the key has an entry whose
\* expires_at is later than the instant of the call, and counts a hit; in every
\* other case, an entry at or past its expiry included, it returns None and
\* counts a miss. get leaves the entries as they are: an entry leaves the map
\* only by cleanup_expired, invalidate or clear, and changes only by an insert.
C25_GetServesOnlyLiveEntries ==
    [][LET entries == ttl_cache.entries
           key == ttl_last'.key
           live == key \in DOMAIN entries /\ entries[key].expires_at > clock
       IN /\ (ttl_last'.index # ttl_last.index /\ ttl_last'.op = "get")
              => /\ ttl_last'.value = (IF live THEN Some(entries[key].value) ELSE None)
                 /\ ttl_cache'.hits = ttl_cache.hits + (IF live THEN 1 ELSE 0)
                 /\ ttl_cache'.misses = ttl_cache.misses + (IF live THEN 0 ELSE 1)
                 /\ ttl_cache'.entries = entries
          /\ (\E k \in DOMAIN entries : k \notin DOMAIN ttl_cache'.entries)
              => ttl_last'.op \in {"cleanup_expired", "invalidate", "clear"}
          /\ (\E k \in DOMAIN entries \cap DOMAIN ttl_cache'.entries :
                  ttl_cache'.entries[k] # entries[k])
              => ttl_last'.op = "insert"]_vars

\* A get at the very instant of expiry: it returned None and was counted as a
\* miss after an earlier hit, and the expired entry is still in the map.
C25_Witness ==
    /\ ttl_last.op = "get" /\ ttl_last.value = None
    /\ ttl_last.key \in DOMAIN ttl_cache.entries
    /\ ttl_cache.entries[ttl_last.key].expires_at = ttl_last.now
    /\ ttl_cache.hits = 1 /\ ttl_cache.misses = 1

\* ------------------------------------------------------------------ properties of the live updates: order
\* C26: every notification on the channel, and so every notification a
\* subscriber is sent, is for a trace whose transaction has committed with the
\* owner and model the notification carries; and the step that sends a
\* notification is the step of an ingest past its commit that has just
\* performed the cache insert of the response the notification was built from.
C26_NotificationFollowsCommitAndCacheInsert ==
    [][LET committed(n) ==
               \E image \in commits' :
                   /\ image.request_id = n.request_id
                   /\ image.row.user_api_key = n.user_api_key
                   /\ image.row.model = n.model_id
       IN /\ \A i \in 1..Len(log_events') : committed(log_events'[i])
          /\ sent'.type = "new_log" => committed(log_events'[sent'.index])
          /\ log_events' # log_events =>
                 \E p \in Workers, now \in NowChoices :
                     LET payload == Unwrap(tasks[p].payload)
                         response == payload_to_response(payload, tasks[p].event_ids,
                                                         tasks[p].mod_call_ids, now)
                     IN /\ tasks[p].op = "ingest" /\ tasks[p].pc = "respond"
                        /\ log_events' = Append(log_events, NewLogEventOf(payload, response))
                        /\ log_cache' = LogCache_insert(log_cache, tasks[p].request_id,
                                                        response)]_vars

\* An administrator's connection was sent the notification of the second
\* ingest of t1: the trace is in the store and in the cache.
C26_Witness ==
    /\ sent.type = "new_log" /\ sent.index = 2
    /\ log_events[2].request_id = "t1"
    /\ \E image \in commits : image.request_id = "t1"
                                  /\ image.row.user_api_key = log_events[2].user_api_key
    /\ RowsOf(db.requests, "t1") # {}
    /\ "t1" \in DOMAIN log_cache.entries

\* ------------------------------------------------------------------ the two assemblers side by side
\* The requests (task, id, payload) of the comparison: two ingests of one id,
\* read by an administrator. A get_log that starts between an ingest's commit
\* and its cache insert misses the cache and assembles from the store.
MaxTraceRequests == 3

NextTrace ==
    \/ /\ started < MaxTraceRequests
       /\ \E p \in Workers :
            \/ \E kind \in {"overridden", "swapped"} : BeginIngest(p, "t1", kind)
            \/ BeginGetLog(p, "t1", Admin)
    \/ \E p \in Workers :
        \/ IngestPersistRequest(p)
        \/ IngestReplaceChildren(p)
        \/ IngestCommit(p)
        \/ IngestRespond(p)
        \/ IngestStoreError(p)
        \/ GetLogFetchRow(p)
        \/ GetLogFetchEvents(p)
        \/ GetLogFetchModCalls(p)
        \/ GetLogFetchModLogs(p)
        \/ GetLogFetchActions(p)
        \/ GetLogRespond(p)

SpecTrace == InitSys /\ [][NextTrace]_vars


\* ------------------------------------------------------------------ properties of the action fields
\* C28: for every action and every explicit field the value used is the
\* explicit field when present, otherwise the value under the same-named key of
\* the detail blob, otherwise absent; the explicit field wins over the blob key
\* in the persisted columns (the rows replace_actions inserts) and in the
\* payload of the assembled trace, whether it is assembled from the submitted
\* payload or from the stored rows.
C28_ExplicitFieldWinsOverBlobKey ==
    [][\A p \in Workers :
        LET ValueUnder(object, key) ==
                IF \E kv \in object : kv[1] = key
                THEN Some((CHOOSE kv \in object : kv[1] = key)[2]) ELSE None
            ExplicitFirst(explicit, details, key) ==
                IF explicit # None THEN explicit
                ELSE IF details # None THEN ValueUnder(Unwrap(details), key)
                ELSE None
            submitted == Unwrap(tasks[p].payload).actions
        IN /\ (IngestReplaceChildren(p) /\ tasks'[p].pc = "commit") =>
                {<<r.action_type, r.details, r.token_count, r.backtrack_steps>> :
                     r \in tasks'[p].tx.actions}
                  = {<<submitted[i].action_type, submitted[i].details,
                       ExplicitFirst(submitted[i].token_count, submitted[i].details,
                                     "token_count"),
                       ExplicitFirst(submitted[i].backtrack_steps, submitted[i].details,
                                     "backtrack_steps")>> : i \in 1..Len(submitted)}
           /\ IngestRespond(p) =>
                LET cached == LogCache_get_value(log_cache', tasks[p].request_id)
                    built == Unwrap(cached).actions
                IN \A i \in 1..Len(submitted) :
                       /\ ValueUnder(built[i].payload, "token_count")
                            = ExplicitFirst(submitted[i].token_count,
                                            submitted[i].details, "token_count")
                       /\ ValueUnder(built[i].payload, "backtrack_steps")
                            = ExplicitFirst(submitted[i].backtrack_steps,
                                            submitted[i].details, "backtrack_steps")
           /\ GetLogRespond(p) =>
                LET rows == tasks[p].fetched.actions
                    built == Unwrap(reply'.body).actions
                IN \A i \in 1..Len(rows) :
                       /\ ValueUnder(built[i].payload, "token_count") = rows[i].token_count
                       /\ ValueUnder(built[i].payload, "backtrack_steps")
                            = rows[i].backtrack_steps]_vars


\* ------------------------------------------------------------------ properties of the legacy steps
\* C30: the steps list of an assembled trace has exactly one entry per Sampled
\* event of its events list and none for the Prefilled, ForwardPass and Added
\* events, in the same relative order, each entry carrying the event's step,
\* sampled token, token text and forced flag (false when absent); and the
\* assembly from the submitted payload and the assembly from the stored rows of
\* the same ingest give the same list.
C30_StepsProjectSampledEventsAlikeFromPayloadAndStore ==
    [][\A p \in Workers :
        LET Carried(s) ==
                [i \in 1..Len(s) |-> <<s[i].step_index, s[i].token, s[i].token_text,
                                       s[i].forced>>]
            Projects(log) ==
                LET sampled == {i \in 1..Len(log.events) :
                                    log.events[i].event_type = "Sampled"}
                    nth(k) == CHOOSE i \in sampled :
                                  Cardinality({j \in sampled : j <= i}) = k
                IN /\ Len(log.steps) = Cardinality(sampled)
                   /\ \A k \in 1..Len(log.steps) :
                          Carried(log.steps)[k]
                            = <<log.events[nth(k)].step, log.events[nth(k)].sampled_token,
                                log.events[nth(k)].token_text,
                                IF log.events[nth(k)].forced = None THEN FALSE
                                ELSE Unwrap(log.events[nth(k)].forced)>>
            EventIds(log) == {log.events[i].id : i \in 1..Len(log.events)}
            cached == LogCache_get_value(log_cache, tasks[p].request_id)
        IN /\ IngestRespond(p) =>
                Projects(Unwrap(LogCache_get_value(log_cache', tasks[p].request_id)))
           /\ (GetLogRespond(p) /\ reply'.status = 200) =>
                /\ Projects(Unwrap(reply'.body))
                /\ (IsSome(cached)
                      /\ EventIds(Unwrap(cached)) = EventIds(Unwrap(reply'.body))) =>
                        Carried(Unwrap(cached).steps) = Carried(Unwrap(reply'.body).steps)]_vars


\* ------------------------------------------------------------------ properties of the cache under concurrency
\* C31: under concurrent cache operations every completed get increments
\* exactly one of hits and misses and leaves the other; it returns a value, and
\* counts a hit, only if the key is in the map at the moment it holds the write
\* lock; and the one anomaly is the spurious miss: a get whose key was in the
\* map at its read-lock check and is removed before its write-lock update
\* returns None and counts a miss.
C31_GetCountsOnceAndOnlyMissesSpuriously ==
    [][\A t \in Threads :
        LET firstCheck == threads[t].op = "idle"
            completes == ThreadGet(t) /\ threads'[t].op = "idle"
            present == last'.request_id \in DOMAIN log_cache.entries
            countsHit == /\ log_cache'.hits = log_cache.hits + 1
                         /\ log_cache'.misses = log_cache.misses
            countsMiss == /\ log_cache'.misses = log_cache.misses + 1
                          /\ log_cache'.hits = log_cache.hits
        IN completes =>
            /\ last'.op = "get"
            /\ (countsHit /\ ~ countsMiss) \/ (countsMiss /\ ~ countsHit)
            /\ last'.hit <=> countsHit
            /\ last'.hit <=> (present /\ ~ firstCheck)
            /\ last'.hit => log_cache'.entries[last'.request_id].value
                              = log_cache.entries[last'.request_id].value
            /\ last'.removed <=> (~ firstCheck /\ ~ present)
            /\ last'.removed => countsMiss]_vars

\* A get has just returned None for a key that passed its first check: the
\* other thread removed the key in between.
C31_Witness ==
    /\ last.op = "get" /\ last.removed /\ ~ last.hit
    /\ last.request_id \notin DOMAIN log_cache.entries
    /\ log_cache.misses > 0


\* C40: every recency value is handed out in a step of a call that holds the
\* write lock of the map, it is the counter's value, which then grows by one, so
\* it is greater than every value handed out before; in every reachable state
\* no two entries have the same access_order, every access_order is below the
\* counter, and a non-empty map has exactly one least recently used entry.
C40_RecencyValuesAreUniqueAndGrow ==
    /\ [](/\ \A j, k \in DOMAIN log_cache.entries :
               j # k => log_cache.entries[j].access_order
                          # log_cache.entries[k].access_order
          /\ \A k \in DOMAIN log_cache.entries :
               log_cache.entries[k].access_order < log_cache.access_counter
          /\ DOMAIN log_cache.entries # {} =>
               Cardinality({k \in DOMAIN log_cache.entries :
                               \A j \in DOMAIN log_cache.entries :
                                   log_cache.entries[k].access_order
                                     <= log_cache.entries[j].access_order}) = 1)
    /\ [][LET stamped == {k \in DOMAIN log_cache'.entries :
                             k \notin DOMAIN log_cache.entries
                             \/ log_cache'.entries[k].access_order
                                  # log_cache.entries[k].access_order}
          IN /\ log_cache'.access_counter
                  = log_cache.access_counter + Cardinality(stamped)
             /\ Cardinality(stamped) <= 1
             /\ \A k \in stamped :
                  /\ log_cache'.entries[k].access_order = log_cache.access_counter
                  /\ \A t \in Threads : lock.writer \in {"", t} \/ threads'[t] = threads[t]
                  /\ lock.readers = {}
                  /\ \E t \in Threads :
                        /\ threads[t].op \in {"insert", "get"}
                        /\ threads'[t] # threads[t]
                        /\ lock.writer = IF threads[t].op = "insert" THEN t ELSE ""]_vars

\* Two entries are cached and a get has just given the older one the newest
\* recency value, so the other entry is now the least recently used.
C40_Witness ==
    /\ last.op = "get" /\ last.hit
    /\ Cardinality(DOMAIN log_cache.entries) = 2
    /\ log_cache.entries[last.request_id].access_order = log_cache.access_counter - 1
    /\ log_cache.access_counter >= 3
    /\ LruKey(log_cache.entries) # last.request_id
    /\ \E t \in Threads : threads[t].op = "insert" /\ threads[t].pc = "lock"


\* ------------------------------------------------------------------ properties of the read path
\* C32: a get_log that misses the cache for a trace the caller may access
\* replies 200 with the trace assembled from the store and, unless the trace is
\* oversized, leaves exactly that trace in the cache, so that a get_log of the
\* same id that follows with the entry still in place is a hit: it counts a hit,
\* makes no store query and serves the cached trace; a miss whose access check
\* fails replies 401 or 403 and leaves the cache as it was.
C32_MissFillsCacheAndNextGetHits ==
    [][\A p \in Workers :
        LET MayRead(log, caller) ==
                \/ log.is_public
                \/ caller # None /\ Unwrap(caller).is_admin
                \/ /\ caller # None /\ Unwrap(caller).allowed_api_key # None
                   /\ log.user_api_key = Unwrap(caller).allowed_api_key
            Shown(log, caller) ==
                IF caller # None /\ Unwrap(caller).is_admin THEN log
                ELSE [log EXCEPT !.user_api_key = None]
            id == tasks[p].request_id
            fetched == Assembled(p)
        IN /\ GetLogRespond(p) =>
                IF MayRead(fetched, tasks[p].caller)
                THEN /\ reply'.status = 200
                     /\ reply'.body = Some(Shown(fetched, tasks[p].caller))
                     /\ ~ TooLarge(LogResponse_memory_size(fetched), log_cache.max_bytes) =>
                            /\ id \in DOMAIN log_cache'.entries
                            /\ log_cache'.entries[id].value = fetched
                     /\ log_cache'.hits = log_cache.hits
                     /\ log_cache'.misses = log_cache.misses
                ELSE /\ reply'.status \in {401, 403}
                     /\ reply'.body = None
                     /\ log_cache' = log_cache
           /\ \A request_id \in RequestIds, caller \in Callers :
                (BeginGetLog(p, request_id, caller)
                   /\ request_id \in DOMAIN log_cache.entries) =>
                    LET cached == log_cache.entries[request_id].value IN
                    /\ log_cache'.hits = log_cache.hits + 1
                    /\ log_cache'.misses = log_cache.misses
                    /\ log_cache'.entries[request_id].value = cached
                    /\ tasks'[p].op = "idle"
                    /\ reply'.op = "get_log" /\ reply'.request_id = request_id
                    /\ IF MayRead(cached, caller)
                       THEN /\ reply'.status = 200
                            /\ reply'.body = Some(Shown(cached, caller))
                       ELSE reply'.status \in {401, 403} /\ reply'.body = None]_vars

\* No ingest has run since the start, so the cached entry of t1 was put there by
\* a get_log that missed; a later get_log has hit it and served the same trace.
C32_Witness ==
    /\ Len(log_events) = 1
    /\ log_cache.misses >= 1 /\ log_cache.hits >= 1
    /\ reply.op = "get_log" /\ reply.status = 200
    /\ "t1" \in DOMAIN log_cache.entries
    /\ Unwrap(reply.body).events = log_cache.entries["t1"].value.events
    /\ Len(Unwrap(reply.body).events) = 2
    /\ \A p \in Workers : tasks[p].op = "idle"


\* ------------------------------------------------------------------ ingests of two ids
\* Ingests of the ids t1 and t2, succeeding ("first", "second") or refused for a
\* bad reference ("bad_high"), running concurrently on the tasks.
NextIds ==
    \/ /\ started < MaxRequests
       /\ \E p \in Workers, request_id \in {"t1", "t2"},
             kind \in {"first", "second", "bad_high"} : BeginIngest(p, request_id, kind)
    \/ \E p \in Workers :
        \/ IngestPersistRequest(p)
        \/ IngestReplaceChildren(p)
        \/ IngestCommit(p)
        \/ IngestRespond(p)
        \/ IngestStoreError(p)

SpecIds == InitSys /\ [][NextIds]_vars

\* C33: ingests of different ids are independent in the store: the requests,
\* events, mod_calls, mod_logs and actions rows of an id change only in the
\* commit of an ingest of that id, the rows a transaction holds all carry the
\* id of its ingest, and an ingest that fails changes no row at all, in every
\* interleaving of concurrent ingests.
C33_IngestTouchesOnlyRowsOfItsId ==
    /\ [][\A request_id \in {"t1", "t2"} :
            LET Rows(d) == [table \in {"requests", "events", "mod_calls", "mod_logs",
                                       "actions"} |->
                               {r \in d[table] : r.request_id = request_id}]
            IN Rows(db') # Rows(db) =>
                 \E p \in Workers :
                    /\ tasks[p].op = "ingest" /\ tasks[p].pc = "commit"
                    /\ tasks[p].request_id = request_id
                    /\ tasks'[p].pc = "respond"]_vars
    /\ [][(reply' # reply /\ reply'.status # 201) => db' = db]_vars
    /\ [](\A p \in Workers :
            \A r \in tasks[p].tx.events \cup tasks[p].tx.mod_calls
                       \cup tasks[p].tx.mod_logs \cup tasks[p].tx.actions
                       \cup {tasks[p].tx.row[i] : i \in 1..Len(tasks[p].tx.row)} :
                r.request_id = tasks[p].request_id)

\* The store holds the rows of t1 and of t2, each from its own ingest; a further
\* ingest of t2 has just been refused and has rolled back the rows it had written.
C33_Witness ==
    /\ RowsOf(db.events, "t1") # {} /\ RowsOf(db.events, "t2") # {}
    /\ reply.op = "ingest" /\ reply.request_id = "t2"
    /\ reply.status = 400 /\ reply.rolled_back > 0
    /\ Cardinality(commits) = 2


\* ------------------------------------------------------------------ re-ingest of a public trace
\* The public trace t1 is ingested again and read, by every kind of caller;
\* nothing changes its visibility.
NextReingest ==
    \/ /\ started < MaxRequests
       /\ \E p \in Workers :
            \/ \E kind \in {"first", "second"} : BeginIngest(p, "t1", kind)
            \/ \E caller \in Callers : BeginGetLog(p, "t1", caller)
    \/ \E p \in Workers :
        \/ IngestPersistRequest(p)
        \/ IngestReplaceChildren(p)
        \/ IngestCommit(p)
        \/ IngestRespond(p)
        \/ IngestStoreError(p)
        \/ GetLogFetchRow(p)
        \/ GetLogFetchEvents(p)
        \/ GetLogFetchModCalls(p)
        \/ GetLogFetchModLogs(p)
        \/ GetLogFetchActions(p)
        \/ GetLogRespond(p)

SpecReingest == InitPublic /\ [][NextReingest]_vars

\* C34: re-ingesting an existing trace does not change who can read it: the
\* commit of the re-ingest leaves is_public, public_token, favorited_by and tags
\* of the stored row as they were, and get_log keeps granting what it granted
\* before: the trace is public in the store throughout, so every get_log of it,
\* authenticated or not, is answered 200.
C34_ReingestKeepsVisibilityAndAccess ==
    /\ [][\A p \in Workers :
            IngestCommit(p) =>
                \A old \in RowsOf(db.requests, tasks[p].request_id) :
                    \E new \in RowsOf(db'.requests, tasks[p].request_id) :
                        /\ new.is_public = old.is_public
                        /\ new.public_token = old.public_token
                        /\ new.favorited_by = old.favorited_by
                        /\ new.tags = old.tags]_vars
    /\ [](\A row \in RowsOf(db.requests, "t1") :
            (row.is_public /\ reply.op = "get_log" /\ reply.request_id = "t1") =>
                reply.status = 200)


\* ------------------------------------------------------------------ properties of the visibility changes
\* C35: once make_request_private of a trace has returned and every request
\* that overlapped it has completed (no task is running and the stored row is
\* private), the cache holds no copy of the trace with is_public = true, and a
\* get_log of it without authentication is denied with 401.
C35_NoPublicCopySurvivesMakePrivate ==
    /\ []((/\ \A p \in Workers : tasks[p].op = "idle"
           /\ \E row \in RowsOf(db.requests, "t1") : ~ row.is_public
           /\ "t1" \in DOMAIN log_cache.entries) =>
              ~ log_cache.entries["t1"].value.is_public)
    /\ [][\A p \in Workers :
            (/\ \A q \in Workers : tasks[q].op = "idle"
             /\ \E row \in RowsOf(db.requests, "t1") : ~ row.is_public
             /\ BeginGetLog(p, "t1", None)
             /\ tasks'[p].op = "idle") => reply'.status = 401]_vars


\* ------------------------------------------------------------------ favorites, tags and discussions
\* array_append unless present, and array_remove, of the UPDATEs on a text[] column.
array_append_new(array, name) ==
    IF \E i \in 1..Len(array) : array[i] = name THEN array ELSE Append(array, name)
array_remove(array, name) == SelectSeq(array, LAMBDA e : e # name)

\* UPDATE requests SET <column> = .. WHERE request_id = $1 of add_favorite,
\* remove_favorite, add_tag and remove_tag.
UpdateArray(requests, request_id, op, name) ==
    {IF r.request_id # request_id THEN r
     ELSE CASE op = "add_favorite" ->
                  [r EXCEPT !.favorited_by = array_append_new(@, name)]
            [] op = "remove_favorite" -> [r EXCEPT !.favorited_by = array_remove(@, name)]
            [] op = "add_tag" -> [r EXCEPT !.tags = array_append_new(@, name)]
            [] op = "remove_tag" -> [r EXCEPT !.tags = array_remove(@, name)]
     : r \in requests}

\* The reply of a handler that ran from start to end in one step.
Replied(op, request_id, status) ==
    [body |-> None, op |-> op, request_id |-> request_id, rolled_back |-> 0,
     status |-> status, worker |-> "w1"]

\* A request arrives while no other request is running.
Quiet == \A p \in Workers : tasks[p].op = "idle"

\* add_favorite, remove_favorite, add_tag, remove_tag, run alone: get_auth (401
\* without a valid key), the UPDATE .. RETURNING, and for a row that exists
\* log_cache.invalidate and 200, else 404.
UpdateFavoriteOrTag(op, request_id, caller, name) ==
    /\ Quiet
    /\ started' = started + 1
    /\ IF ~ IsSome(caller)
       THEN /\ reply' = Replied(op, request_id, 401)
            /\ UNCHANGED <<db, log_cache>>
       ELSE IF RowsOf(db.requests, request_id) = {}
       THEN /\ reply' = Replied(op, request_id, 404)
            /\ UNCHANGED <<db, log_cache>>
       ELSE /\ db' = [db EXCEPT !.requests = UpdateArray(@, request_id, op, name)]
            /\ log_cache' = LogCache_invalidate(log_cache, request_id)
            /\ reply' = Replied(op, request_id, 200)
    /\ UNCHANGED <<last, threads, lock, subs, sent, seqs, tasks, log_events, commits, auxVars>>

\* create_discussion, run alone: get_auth, the EXISTS query (404), the INSERT
\* into discussions, invalidate_discussions_cache on the TtlCache of the
\* discussion lists, 201. The log cache is not touched.
CreateDiscussion(request_id, caller) ==
    /\ Quiet
    /\ started' = started + 1
    /\ IF ~ IsSome(caller)
       THEN /\ reply' = Replied("create_discussion", request_id, 401)
            /\ UNCHANGED <<db, ttl_cache, ttl_last>>
       ELSE IF RowsOf(db.requests, request_id) = {}
       THEN /\ reply' = Replied("create_discussion", request_id, 404)
            /\ UNCHANGED <<db, ttl_cache, ttl_last>>
       ELSE /\ db' = [db EXCEPT !.discussions =
                         @ \cup {[id |-> Cardinality(@) + 1, request_id |-> request_id]}]
            /\ TtlInvalidate(request_id)
            /\ reply' = Replied("create_discussion", request_id, 201)
    /\ UNCHANGED <<log_cache, last, threads, lock, subs, sent, seqs, tasks, log_events,
                   commits, stmt, clock, warm>>

\* Requests made one after the other.
MaxMutations == 4

\* Mutations of the stored trace t1 and reads of it, each request arriving
\* when the one before has returned.
NextMutate ==
    \/ /\ started < MaxMutations /\ Quiet
       /\ \/ \E op \in {"add_favorite", "remove_favorite"}, caller \in {Admin, None} :
                UpdateFavoriteOrTag(op, "t1", caller, "ann")
          \/ \E op \in {"add_tag", "remove_tag"} :
                UpdateFavoriteOrTag(op, "t1", UserOf("K1"), "good")
          \/ \E caller \in {Admin, None} : CreateDiscussion("t1", caller)
          \/ \E op \in {"make_public", "make_private"} :
                BeginVisibility("w1", op, "t1", Admin)
          \/ BeginGetLog("w1", "t1", Admin)
    \/ \E p \in Workers :
        \/ VisibilityUpdate(p)
        \/ VisibilityRespond(p)
        \/ GetLogFetchRow(p)
        \/ GetLogFetchEvents(p)
        \/ GetLogFetchModCalls(p)
        \/ GetLogFetchModLogs(p)
        \/ GetLogFetchActions(p)
        \/ GetLogRespond(p)

SpecMutate == InitPublic /\ [][NextMutate]_vars

\* C36: with no concurrent requests, after any completed add or remove of a
\* favorite or a tag, make-public, make-private or create-discussion on a
\* trace, whether or not the trace was cached before, the next get_log of it
\* returns favorited_by, tags, is_public, public_token and discussion_count
\* equal to the store's current values.
C36_GetLogShowsStoredAttributesAfterMutation ==
    (Quiet /\ reply.op = "get_log" /\ reply.status = 200) =>
        \A row \in RowsOf(db.requests, reply.request_id) :
            /\ Unwrap(reply.body).favorited_by = row.favorited_by
            /\ Unwrap(reply.body).tags = row.tags
            /\ Unwrap(reply.body).is_public = row.is_public
            /\ Unwrap(reply.body).public_token = row.public_token
            /\ Unwrap(reply.body).discussion_count
                 = Cardinality(RowsOf(db.discussions, reply.request_id))


\* ------------------------------------------------------------------ properties of the live updates: cursors
\* C37: a connection's receiver starts at the tail of the channel, so it gets
\* only notifications published after it subscribed; every turn of its send
\* loop moves its cursor forward, so it is sent the notifications it may see in
\* publish order and each at most once, the message carrying the notification
\* at the cursor; and a turn of one connection changes neither the channel nor
\* the cursor of another connection, nor what that connection receives next.
C37_SubscribersReceiveInOrderOnceIndependently ==
    [][\A s \in Subscribers :
        /\ (\E caller \in StreamCallers :
               Subscribe(s, caller) /\ ~ subs[s].open /\ subs'[s].open) =>
              subs'[s].next = Len(log_events)
        /\ SubscriberNext(s) =>
              /\ subs'[s].next > subs[s].next
              /\ sent'.to = s
              /\ sent'.type = "new_log" =>
                    /\ sent'.index = subs[s].next + 1
                    /\ sent'.index <= Len(log_events)
                    /\ Unwrap(sent'.data).request_id = log_events[sent'.index].request_id
                    /\ Unwrap(sent'.data).total_steps = log_events[sent'.index].total_steps
                    /\ \/ subs[s].is_admin
                       \/ /\ subs[s].allowed_api_key # None
                          /\ log_events[sent'.index].user_api_key = subs[s].allowed_api_key
              /\ log_events' = log_events
              /\ \A u \in Subscribers \ {s} :
                    /\ subs'[u] = subs[u]
                    /\ Recv(log_events', subs'[u].next) = Recv(log_events, subs[u].next)]_vars

\* A connection opened after the first notification has been sent the second
\* one, and only that.
C37_Witness ==
    /\ Len(log_events) = 2
    /\ sent.type = "new_log" /\ sent.index = 2
    /\ subs[sent.to].open /\ subs[sent.to].next = 2


collections ==
    {[id |-> 1, is_public |-> TRUE, public_token |-> "col-a"],
     [id |-> 2, is_public |-> FALSE, public_token |-> "col-b"]}
collection_requests ==
    {[collection_id |-> 1, request_id |-> "t1"], [collection_id |-> 2, request_id |-> "t1"]}

\* The request id the queries of a share endpoint lead to, None for NotFound.
\* get_public_request: SELECT request_id FROM requests WHERE public_token = $1
\* AND is_public = TRUE. get_request_via_collection: SELECT id FROM collections
\* WHERE public_token = $1 AND is_public = TRUE, then SELECT COUNT(*) FROM
\* collection_requests WHERE collection_id = $1 AND request_id = $2.
shared_request_id(d, op, token, request_id) ==
    IF op = "get_public_request"
    THEN LET rows == {r \in d.requests : r.is_public /\ r.public_token = Some(token)}
         IN IF rows = {} THEN None ELSE Some((CHOOSE r \in rows : TRUE).request_id)
    ELSE LET found == {c \in collections : c.is_public /\ c.public_token = token}
         IN IF found = {} THEN None
            ELSE IF Cardinality({m \in collection_requests :
                                    /\ m.collection_id = (CHOOSE c \in found : TRUE).id
                                    /\ m.request_id = request_id}) = 0
            THEN None
            ELSE Some(request_id)

\* The body of the share endpoints: user_api_key is never exposed.
Shared(log) == [log EXCEPT !.user_api_key = None]

\* get_public_request and get_request_via_collection up to fetch_log_response:
\* the queries that find the request (404 when they find none), log_cache.get,
\* and on a hit the reply. request_id is the path parameter of
\* get_request_via_collection; get_public_request has none.
BeginShared(p, op, token, request_id) ==
    /\ Free(p)
    /\ started' = started + 1
    /\ LET found == shared_request_id(db, op, token, request_id)
           id == Unwrap(found)
           cached == LogCache_get_value(log_cache, id)
           t == [IdleTask EXCEPT !.op = op, !.pc = "fetch_row", !.request_id = id]
       IN IF ~ IsSome(found)
          THEN /\ tasks' = [Start(p, [IdleTask EXCEPT !.op = op]) EXCEPT ![p] = IdleTask]
               /\ reply' = [body |-> None, op |-> op, request_id |-> request_id,
                            rolled_back |-> 0, status |-> 404, worker |-> p]
               /\ UNCHANGED log_cache
          ELSE /\ log_cache' = LogCache_get(log_cache, id)
               /\ IF IsSome(cached)
                  THEN /\ tasks' = [Start(p, t) EXCEPT ![p] = IdleTask]
                       /\ reply' = [body |-> Some(Shared(Unwrap(cached))), op |-> op,
                                    request_id |-> id, rolled_back |-> 0, status |-> 200,
                                    worker |-> p]
                  ELSE /\ tasks' = Start(p, t)
                       /\ UNCHANGED reply
    /\ UNCHANGED <<last, threads, lock, subs, sent, db, seqs, log_events, commits, auxVars>>

\* A share endpoint that hides the key before it caches the response.
SharedCachesWhatItServes(p) ==
    /\ tasks[p].op \in FetchOps \ {"get_log"} /\ tasks[p].pc = "fetch_discussions"
    /\ log_cache' = LogCache_insert(log_cache, tasks[p].request_id, Shared(Assembled(p)))
    /\ reply' = Reply(p, 200, Some(Shared(Assembled(p))))
    /\ tasks' = Done(p)
    /\ UNCHANGED <<last, threads, lock, subs, sent, db, seqs, log_events, commits, started, auxVars>>

\* The end of a share endpoint after a cache miss: the discussions count of
\* fetch_log_response, log_cache.insert of the response as fetched, and the
\* reply without user_api_key.
SharedRespond(p) ==
    /\ tasks[p].op \in FetchOps \ {"get_log"} /\ tasks[p].pc = "fetch_discussions"
    /\ log_cache' = LogCache_insert(log_cache, tasks[p].request_id, Assembled(p))
    /\ reply' = Reply(p, 200, Some(Shared(Assembled(p))))
    /\ tasks' = Done(p)
    /\ UNCHANGED <<last, threads, lock, subs, sent, db, seqs, log_events, commits, started, auxVars>>

\* Reads of a stored public trace through get_log and the share endpoints,
\* running concurrently.
NextShare ==
    \/ /\ started < MaxRequests
       /\ \E p \in Workers :
            \/ \E caller \in Callers : BeginGetLog(p, "t1", caller)
            \/ \E token \in {"tok-a", "tok-b"} : BeginShared(p, "get_public_request", token, "")
            \/ \E token \in {"col-a", "col-b"}, request_id \in {"t1", "t2"} :
                   BeginShared(p, "get_request_via_collection", token, request_id)
    \/ \E p \in Workers :
        \/ GetLogFetchRow(p)
        \/ GetLogFetchEvents(p)
        \/ GetLogFetchModCalls(p)
        \/ GetLogFetchModLogs(p)
        \/ GetLogFetchActions(p)
        \/ GetLogRespond(p)
        \/ SharedRespond(p)

SpecShare == InitPublic /\ [][NextShare]_vars


\* C39: a read by a caller that is not an administrator (get_log, or either
\* share endpoint) that finds the trace cached leaves the cached entry as it
\* was except for its recency, and leaves the number of cached bytes; its body
\* is the cached value without user_api_key. Such a read that misses caches the
\* response as fetched, with the owning key, and answers without it. A get_log
\* of an administrator that finds the trace cached returns the cached value,
\* which carries the owning key of the stored row.
C39_NonAdminReadLeavesCachedCopy ==
    [][\A p \in Workers :
        LET id == "t1"
            hit == id \in DOMAIN log_cache.entries
            before == log_cache.entries[id]
            after == log_cache'.entries[id]
            row == Unwrap(fetch_request_row(db, id))
            begins == \/ \E caller \in Callers \ {Admin} : BeginGetLog(p, id, caller)
                      \/ BeginShared(p, "get_public_request", "tok-a", "")
                      \/ BeginShared(p, "get_request_via_collection", "col-a", id)
            ends == \/ SharedRespond(p)
                    \/ GetLogRespond(p) /\ ~ caller_is_admin(tasks[p].caller)
        IN /\ (hit /\ begins) =>
                /\ DOMAIN log_cache'.entries = DOMAIN log_cache.entries
                /\ after.value = before.value
                /\ after.size_bytes = before.size_bytes
                /\ after.access_order >= before.access_order
                /\ log_cache'.current_bytes = log_cache.current_bytes
                /\ reply'.status = 200
                /\ Unwrap(reply'.body) = [before.value EXCEPT !.user_api_key = None]
                /\ IsSome(after.value.user_api_key)
           /\ (ends /\ reply'.status = 200) =>
                /\ Unwrap(reply'.body).user_api_key = None
                /\ Unwrap(reply'.body) = [after.value EXCEPT !.user_api_key = None]
                /\ after.value.user_api_key = row.user_api_key
                /\ IsSome(after.value.user_api_key)
                /\ hit => after.value = before.value
           /\ (hit /\ BeginGetLog(p, id, Admin)) =>
                /\ reply'.status = 200
                /\ Unwrap(reply'.body) = before.value
                /\ Unwrap(reply'.body).user_api_key = row.user_api_key
                /\ IsSome(Unwrap(reply'.body).user_api_key)]_vars

\* A share endpoint missed the cache, cached the trace and answered without the
\* key; a second read through a share endpoint then found it cached and answered
\* without the key, and the cached value still carries the owning key.
C39_Witness ==
    /\ Quiet /\ started = 2
    /\ log_cache.misses = 1 /\ log_cache.hits = 1
    /\ reply.op \in FetchOps \ {"get_log"} /\ reply.status = 200
    /\ Unwrap(reply.body).user_api_key = None
    /\ "t1" \in DOMAIN log_cache.entries
    /\ log_cache.entries["t1"].value.user_api_key = Some("K1")
    /\ Unwrap(reply.body) = Shared(log_cache.entries["t1"].value)


====
